---- MODULE Spec2Model ----
(***************************************************************************)
(* A model of the cardworks reference engine: the reference grammar        *)
(* (parseRef / parseFragment), the resolver (resolveRef / resolveRefs),    *)
(* the fragment locator (findById, executeXPath), the loader's move, the   *)
(* link graph (findOutgoingRefs / findIncomingRefs), the lint engine       *)
(* (lintCard / lintCards / lintAll), the document model (domToObject,      *)
(* serialize, createElement) and the loader's cache.                       *)
(*                                                                         *)
(* Strings are sequences of one-character strings, so that indexOf,        *)
(* lastIndexOf, slice, startsWith and split do what the code does.         *)
(* A JavaScript object is a function whose domain is the set of its keys   *)
(* that hold a value other than undefined.                                 *)
(***************************************************************************)
EXTENDS Integers, Sequences, FiniteSets, TLC

VARIABLES
    files,      \* the file system: path -> content
    phase,      \* position of the running operation
    refText,    \* the reference string handed to the operation
    parsed,     \* the ParsedRef returned by parseRef
    written,    \* what the text was written from: a (path, version, fragment) triple, or a list of tokens
    result,     \* the ResolvedRef returned by resolveRef
    results,    \* the ResolvedRef[] returned by resolveRefs
    raised,     \* TRUE when the operation threw instead of returning
    currentFile,\* the path of the file that holds the reference
    mv,         \* the state of a move call
    cache       \* the loader's cache: path -> the tree loaded or saved

vars ==
    <<files, phase, refText, parsed, written, result, results, raised, currentFile, mv, cache>>

----------------------------------------------------------------------------
(* Bounds *)

\* longest reference string enumerated for parseRef
MaxLen == 5
\* most element nodes below the root of a target document
MaxNodes == 2

----------------------------------------------------------------------------
(* Strings *)

\* an object key that is set only when `has` holds
Opt(name, has, val) == IF has THEN name :> val ELSE <<>>

Has(obj, key) == key \in DOMAIN obj

Digits == {"0", "1", "2", "3", "4", "5", "6", "7", "8", "9"}

Whitespace == {" ", "\t", "\n"}

\* String.prototype.indexOf for a one-character needle, 1-based, 0 when absent
IndexOf(s, c) ==
    IF \E i \in 1..Len(s) : s[i] = c
    THEN CHOOSE i \in 1..Len(s) : s[i] = c /\ \A j \in 1..(i - 1) : s[j] # c
    ELSE 0

FirstIndexOfMutant(s, c) == IndexOf(s, c)

\* String.prototype.lastIndexOf for a one-character needle, 1-based, 0 when absent
LastIndexOf(s, c) ==
    IF \E i \in 1..Len(s) : s[i] = c
    THEN CHOOSE i \in 1..Len(s) : s[i] = c /\ \A j \in (i + 1)..Len(s) : s[j] # c
    ELSE 0

StartsWith(s, prefix) ==
    /\ Len(s) >= Len(prefix)
    /\ SubSeq(s, 1, Len(prefix)) = prefix

EndsWith(s, suffix) ==
    /\ Len(s) >= Len(suffix)
    /\ SubSeq(s, Len(s) - Len(suffix) + 1, Len(s)) = suffix

\* all strings over alphabet of length at most n
RECURSIVE StringsUpTo(_, _)
StringsUpTo(alphabet, n) ==
    IF n = 0 THEN {<<>>}
    ELSE LET shorter == StringsUpTo(alphabet, n - 1)
         IN shorter \cup {Append(s, c) : s \in {t \in shorter : Len(t) = n - 1}, c \in alphabet}

----------------------------------------------------------------------------
(* Reference grammar *)

QueryOpen == <<"q", "u", "e", "r", "y", "(">>
QueryAllOpen == <<"q", "u", "e", "r", "y", "-", "a", "l", "l", "(">>
CloseParen == <<")">>

\* /^[\d]/.test(afterAt) || /^v\d/.test(afterAt)
VersionLike(afterAt) ==
    \/ Len(afterAt) >= 1 /\ afterAt[1] \in Digits
    \/ Len(afterAt) >= 2 /\ afterAt[1] = "v" /\ afterAt[2] \in Digits

\* parseFragment: query(...) is a query, anything else an id
parseFragment(fragmentStr) ==
    IF StartsWith(fragmentStr, QueryOpen) /\ EndsWith(fragmentStr, CloseParen)
    THEN [type |-> "query", value |-> SubSeq(fragmentStr, 7, Len(fragmentStr) - 1)]
    ELSE [type |-> "id", value |-> fragmentStr]

\* parseRef: the fragment is what follows the first '#'; the version is what
\* follows the last '@' of the rest, when it looks like a version
parseRef(ref) ==
    LET fragmentIndex == IndexOf(ref, "#")
        remaining1 == IF fragmentIndex # 0 THEN SubSeq(ref, 1, fragmentIndex - 1) ELSE ref
        versionIndex == LastIndexOf(remaining1, "@")
        afterAt == SubSeq(remaining1, versionIndex + 1, Len(remaining1))
        hasVersion == versionIndex # 0 /\ VersionLike(afterAt)
        path == IF hasVersion THEN SubSeq(remaining1, 1, versionIndex - 1) ELSE remaining1
    IN  [path |-> path, isAbsolute |-> StartsWith(path, <<"/">>), original |-> ref]
        @@ Opt("version", hasVersion, afterAt)
        @@ Opt("fragment", fragmentIndex # 0,
               parseFragment(SubSeq(ref, fragmentIndex + 1, Len(ref))))

\* formatFragment: the text of a fragment after the '#'
formatFragment(fragment) ==
    CASE fragment.type = "id" -> <<"#">> \o fragment.value
      [] fragment.type = "query" -> <<"#">> \o QueryOpen \o fragment.value \o CloseParen
      [] fragment.type = "query-all" -> <<"#">> \o QueryAllOpen \o fragment.value \o CloseParen

\* the reference text path[@version][#fragment] of a triple
FormatRef(t) ==
    t.path
    \o (IF Has(t, "version") THEN <<"@">> \o t.version ELSE <<>>)
    \o (IF Has(t, "fragment") THEN formatFragment(t.fragment) ELSE <<>>)

----------------------------------------------------------------------------
(* The grammar on its own: every short string, and every well-formed triple *)

ParseAlphabet == {"a", "@", "#", "1", "v"}

WfPaths == {<<".", "/", "B">>, <<"/", "B">>, <<".", ".", "/", "a", "@", "b">>}
WfVersions == {<<"1">>, <<"v", "1">>, <<"1", ".", "0", "-", "b">>}
WfValues == {<<"i">>, <<"/", "/", "s">>, <<"/", "/", "s", "[", "@", "i", "d", "]">>}
WfFragments ==
    [type : {"query", "query-all"}, value : WfValues]
    \cup [type : {"id"}, value : {<<"i">>, <<"s", "e", "c">>}]

WfTriples ==
    {[path |-> p] @@ Opt("version", hv, v) @@ Opt("fragment", hf, f) :
        p \in WfPaths, hv \in BOOLEAN, v \in WfVersions, hf \in BOOLEAN, f \in WfFragments}

NoValue == [none |-> TRUE]

InitParse ==
    /\ files = <<>>
    /\ phase = "ready"
    /\ refText = <<>>
    /\ parsed = NoValue
    /\ written = NoValue
    /\ result = NoValue
    /\ results = <<>>
    /\ raised = FALSE
    /\ currentFile = <<>>
    /\ mv = NoValue
    /\ cache = <<>>

\* parseRef(s) for an arbitrary string
ParseAny ==
    /\ phase = "ready"
    /\ \E s \in StringsUpTo(ParseAlphabet, MaxLen) :
        /\ refText' = s
        /\ parsed' = parseRef(s)
    /\ phase' = "parsed"
    /\ UNCHANGED <<files, written, result, results, raised, currentFile, mv, cache>>

\* parseRef of the text written for a well-formed triple
ParseFormatted ==
    /\ phase = "ready"
    /\ \E t \in WfTriples :
        /\ written' = t
        /\ refText' = FormatRef(t)
        /\ parsed' = parseRef(FormatRef(t))
    /\ phase' = "formatted"
    /\ UNCHANGED <<files, result, results, raised, currentFile, mv, cache>>

NextParse == ParseAny \/ ParseFormatted

SpecParse == InitParse /\ [][NextParse]_vars

----------------------------------------------------------------------------
(* Claims about the grammar *)

\* the text before the first '#'
PreFragment(s) ==
    IF \E i \in 1..Len(s) : s[i] = "#"
    THEN SubSeq(s, 1, (CHOOSE i \in 1..Len(s) : s[i] = "#" /\ \A j \in 1..(i - 1) : s[j] # "#") - 1)
    ELSE s

SetMax(S) == CHOOSE m \in S : \A x \in S : x <= m

\* positions of '@' in s
AtPositions(s) == {i \in 1..Len(s) : s[i] = "@"}

\* positions of '@' in s followed by a version-like character
VersionAtPositions(s) == {i \in AtPositions(s) : VersionLike(SubSeq(s, i + 1, Len(s)))}

SplitsAt(p, pre, i) ==
    /\ Has(p, "version")
    /\ p.version = SubSeq(pre, i + 1, Len(pre))
    /\ p.path = SubSeq(pre, 1, i - 1)

NoVersion(p, pre) == ~Has(p, "version") /\ p.path = pre

\* C8 as stated: the boundary is the last '@' among those followed by a
\* version-like character; with no such '@' there is no version.
C8_LastVersionLikeAt ==
    phase = "parsed" =>
        LET pre == PreFragment(refText)
        IN  IF VersionAtPositions(pre) # {}
            THEN SplitsAt(parsed, pre, SetMax(VersionAtPositions(pre)))
            ELSE NoVersion(parsed, pre)

\* C8 amended: the boundary is the last '@' of the pre-fragment text, and it
\* is a version boundary only when the character after it is version-like;
\* otherwise there is no version and the whole pre-fragment text is the path,
\* even if an earlier '@' is followed by a version-like character.
C8_LastAtIfVersionLike ==
    phase = "parsed" =>
        LET pre == PreFragment(refText)
        IN  IF AtPositions(pre) # {} /\ SetMax(AtPositions(pre)) \in VersionAtPositions(pre)
            THEN SplitsAt(parsed, pre, SetMax(AtPositions(pre)))
            ELSE NoVersion(parsed, pre)

\* two '@' before the fragment, the last one starting a version
C8_Witness ==
    /\ phase = "parsed"
    /\ Cardinality(AtPositions(PreFragment(refText))) >= 2
    /\ Has(parsed, "version")
    /\ Has(parsed, "fragment")

\* C9: parsing the text path[@version][#fragment] of a well-formed triple
\* gives back the same path, version and fragment kind and value.
C9_RoundTrip ==
    phase = "formatted" =>
        /\ parsed.path = written.path
        /\ Has(parsed, "version") = Has(written, "version")
        /\ Has(written, "version") => parsed.version = written.version
        /\ Has(parsed, "fragment") = Has(written, "fragment")
        /\ Has(written, "fragment") => parsed.fragment = written.fragment

----------------------------------------------------------------------------
(* Paths and the file system (MemoryFileSystem) *)

\* String.prototype.split("/"): the segments between the separators
RECURSIVE SplitOn(_, _)
SplitOn(s, c) ==
    LET i == IndexOf(s, c)
    IN  IF i = 0 THEN <<s>>
        ELSE <<SubSeq(s, 1, i - 1)>> \o SplitOn(SubSeq(s, i + 1, Len(s)), c)

\* Array.prototype.join("/")
RECURSIVE JoinWith(_, _)
JoinWith(parts, c) ==
    IF Len(parts) = 0 THEN <<>>
    ELSE IF Len(parts) = 1 THEN parts[1]
    ELSE parts[1] \o <<c>> \o JoinWith(Tail(parts), c)

\* Array.prototype.pop: nothing happens on an empty array
Pop(parts) == IF Len(parts) = 0 THEN parts ELSE SubSeq(parts, 1, Len(parts) - 1)

\* path.replace(/\\/g, "/").replace(/\/+/g, "/")
RECURSIVE normalizePath(_)
normalizePath(path) ==
    IF Len(path) = 0 THEN <<>>
    ELSE LET c == IF path[1] = "\\" THEN "/" ELSE path[1]
             rest == normalizePath(Tail(path))
         IN  IF c = "/" /\ Len(rest) > 0 /\ rest[1] = "/" THEN rest ELSE <<c>> \o rest

\* the loop of MemoryFileSystem.resolve over the segments of the relative path
RECURSIVE ApplySegments(_, _)
ApplySegments(baseParts, relativeParts) ==
    IF Len(relativeParts) = 0 THEN baseParts
    ELSE LET part == relativeParts[1]
         IN  ApplySegments(
                 IF part = <<".", ".">> THEN Pop(baseParts)
                 ELSE IF part # <<".">> THEN Append(baseParts, part)
                 ELSE baseParts,
                 Tail(relativeParts))

\* MemoryFileSystem.resolve(base, relative)
fsResolve(base, relative) ==
    IF StartsWith(relative, <<"/">>) THEN relative
    ELSE JoinWith(ApplySegments(Pop(SplitOn(base, "/")), SplitOn(relative, "/")), "/")

FsExistsAlwaysMutant(fs, path) == TRUE

\* MemoryFileSystem.exists: a text or a binary file is stored under the path
fsExists(fs, path) == normalizePath(path) \in DOMAIN fs

\* a completed call: a returned value, or a thrown error
Return(v) == [threw |-> FALSE, value |-> v]
Throw(m) == [threw |-> TRUE, message |-> m]

FsReadFailsMutant(fs, path) == Throw(<<"File not found: ">> \o path)

\* MemoryFileSystem.read: only text files can be read
fsRead(fs, path) ==
    IF normalizePath(path) \in DOMAIN fs /\ fs[normalizePath(path)].kind # "binary"
    THEN Return(fs[normalizePath(path)])
    ELSE Throw(<<"File not found: ">> \o path)

ParseXmlFailsMutant(content) == Throw(<<"XML parse error">>)

\* parseXml: the element tree of well-formed markup, a ParseError otherwise
parseXml(content) ==
    IF content.kind = "xml" THEN Return(content.root)
    ELSE Throw(<<"XML parse error">>)

----------------------------------------------------------------------------
(* Fragment locator *)

\* String(n)
RECURSIVE ToDecimal(_)
ToDecimal(n) ==
    LET digit == <<"0", "1", "2", "3", "4", "5", "6", "7", "8", "9">>[(n % 10) + 1]
    IN  IF n < 10 THEN <<digit>> ELSE Append(ToDecimal(n \div 10), digit)

\* getElementChildren of a node without mixed content
getElementChildren(node) == node.children

\* followPath: the node reached from root along child indexes (0-based), or null
RECURSIVE followPath(_, _)
followPath(root, path) ==
    IF Len(path) = 0 THEN Return(root)
    ELSE LET elementChildren == getElementChildren(root)
         IN  IF path[1] >= Len(elementChildren) THEN Throw(<<"null">>)
             ELSE followPath(elementChildren[path[1] + 1], Tail(path))

\* the element nodes of the rebuilt DOM in document order, each with the path
\* computePath gives it (the index among element siblings at every level)
RECURSIVE DomElements(_, _)
RECURSIVE DomForest(_, _, _)
DomElements(node, path) ==
    <<[nodeType |-> 1, tagName |-> node.tagName, attrs |-> node.attrs, path |-> path]>>
    \o DomForest(node.children, path, 0)
DomForest(children, path, index) ==
    IF index >= Len(children) THEN <<>>
    ELSE DomElements(children[index + 1], Append(path, index))
         \o DomForest(children, path, index + 1)

\* xpath.select(expr, doc) for the expressions the model draws:
\*   //name    every element called name, in document order
\*   //@id     the id attribute nodes, in document order
\*   a number  a number, not a node list
\*   anything else is a syntax error and throws
xpathSelect(expr, root) ==
    LET all == DomElements(root, <<>>)
        name == SubSeq(expr, 3, Len(expr))
        IsName(s) == Len(s) > 0 /\ \A i \in 1..Len(s) : s[i] \in {"c", "s", "t", "z"}
        Named(e) == e.tagName = name
        HasId(e) == Has(e.attrs, "id")
        ids == SelectSeq(all, HasId)
    IN  CASE expr = <<"/", "/", "@", "i", "d">> ->
                 Return([array |-> TRUE,
                         nodes |-> [i \in 1..Len(ids) |-> [nodeType |-> 2, path |-> ids[i].path]]])
          [] StartsWith(expr, <<"/", "/">>) /\ IsName(name) ->
                 Return([array |-> TRUE, nodes |-> SelectSeq(all, Named)])
          [] Len(expr) > 0 /\ (\A i \in 1..Len(expr) : expr[i] \in Digits) ->
                 Return([array |-> FALSE])
          [] OTHER -> Throw(<<"syntax error">>)

\* mapDomNodesToElementNodes: each DOM node's path followed in the ElementNode
\* tree; a node is dropped when the path leads nowhere
RECURSIVE mapDomNodesToElementNodes(_, _)
mapDomNodesToElementNodes(domNodes, root) ==
    IF Len(domNodes) = 0 THEN <<>>
    ELSE LET elementNode == followPath(root, domNodes[1].path)
         IN  (IF elementNode.threw THEN <<>>
              ELSE <<[at |-> domNodes[1].path, node |-> elementNode.value]>>)
             \o mapDomNodesToElementNodes(Tail(domNodes), root)

ExecuteXPathNoCatchMutant(expr, root, expectOne) ==
    LET selected == xpathSelect(expr, root)
        IsElement(n) == n.nodeType = 1
    IN  IF selected.threw THEN selected
        ELSE IF ~selected.value.array
        THEN Return([nodes |-> <<>>,
                     error |-> <<"XPath expression \"">> \o expr \o <<"\" did not return nodes">>])
        ELSE Return([nodes |-> mapDomNodesToElementNodes(
                                   SelectSeq(selected.value.nodes, IsElement), root)])

ExecuteXPathNoWarningMutant(expr, root, expectOne) ==
    LET selected == xpathSelect(expr, root)
        IsElement(n) == n.nodeType = 1
    IN  IF selected.threw
        THEN Return([nodes |-> <<>>, error |-> <<"XPath error: ">> \o selected.message])
        ELSE IF ~selected.value.array
        THEN Return([nodes |-> <<>>,
                     error |-> <<"XPath expression \"">> \o expr \o <<"\" did not return nodes">>])
        ELSE Return([nodes |-> mapDomNodesToElementNodes(
                                   SelectSeq(selected.value.nodes, IsElement), root)])

\* executeXPath: the matched ElementNodes, an error when the query fails, a
\* warning when one match was expected and several were found
executeXPath(expr, root, expectOne) ==
    LET selected == xpathSelect(expr, root)
        IsElement(n) == n.nodeType = 1
    IN  IF selected.threw
        THEN Return([nodes |-> <<>>, error |-> <<"XPath error: ">> \o selected.message])
        ELSE IF ~selected.value.array
        THEN Return([nodes |-> <<>>,
                     error |-> <<"XPath expression \"">> \o expr \o <<"\" did not return nodes">>])
        ELSE LET elementDomNodes == SelectSeq(selected.value.nodes, IsElement)
                 matchedNodes == mapDomNodesToElementNodes(elementDomNodes, root)
             IN  IF Len(elementDomNodes) = 0 THEN Return([nodes |-> <<>>])
                 ELSE Return([nodes |-> matchedNodes]
                        @@ Opt("warning", expectOne /\ Len(matchedNodes) > 1,
                               <<"XPath query \"">> \o expr \o <<"\" matched ">>
                               \o ToDecimal(Len(matchedNodes)) \o <<" elements, expected 1">>))

\* findById: the node itself when its id matches, else the first hit among
\* the children, searched in order; <<>> when there is none
RECURSIVE findById(_, _, _)
RECURSIVE findByIdIn(_, _, _, _)
FindByIdChildrenOnlyMutant(node, id, at) == findByIdIn(node.children, id, at, 0)

findById(node, id, at) ==
    IF Has(node.attrs, "id") /\ node.attrs["id"] = id
    THEN <<[at |-> at, node |-> node]>>
    ELSE findByIdIn(node.children, id, at, 0)
findByIdIn(children, id, at, index) ==
    IF index >= Len(children) THEN <<>>
    ELSE LET found == findById(children[index + 1], id, Append(at, index))
         IN  IF Len(found) > 0 THEN found ELSE findByIdIn(children, id, at, index + 1)

\* resolveFragment
resolveFragment(fragment, root) ==
    IF fragment.type = "id"
    THEN Return([nodes |-> findById(root, fragment.value, <<>>)])
    ELSE executeXPath(fragment.value, root, fragment.type = "query")

----------------------------------------------------------------------------
(* Reference resolver *)

projectRoot == <<"/", "p">>

ResolvePathNoRootMutant(parsedRef, cur) ==
    IF parsedRef.isAbsolute THEN parsedRef.path ELSE fsResolve(cur, parsedRef.path)

\* resolvePath
resolvePath(parsedRef, cur) ==
    IF parsedRef.isAbsolute THEN projectRoot \o parsedRef.path
    ELSE fsResolve(cur, parsedRef.path)

\* the result for a target that does not exist
NotFoundWithVersionMutant(base) ==
    base @@ [exists |-> FALSE,
             error |-> <<"File not found: ">> \o base.resolvedPath,
             versionMismatch |-> FALSE]
         @@ Opt("requestedVersion", Has(base.parsed, "version"), base.parsed.version)

NotFoundNoPathMutant(base) ==
    [original |-> base.original, parsed |-> base.parsed, resolvedPath |-> <<>>,
     exists |-> FALSE, error |-> <<"File not found: ">> \o base.resolvedPath,
     versionMismatch |-> FALSE]

notFoundResult(base) ==
    base @@ [exists |-> FALSE,
             error |-> <<"File not found: ">> \o base.resolvedPath,
             versionMismatch |-> FALSE]

\* the result for a target that cannot be read or parsed
parseFailedResult(base, message) ==
    base @@ [exists |-> TRUE,
             error |-> <<"Failed to parse ">> \o base.resolvedPath \o <<": ">> \o message,
             versionMismatch |-> FALSE]

VersionMismatchUndefinedMutant(parsedRef, targetNode) ==
    /\ Has(parsedRef, "version")
    /\ (~Has(targetNode.attrs, "version") \/ parsedRef.version # targetNode.attrs["version"])

\* parsed.version !== undefined && actualVersion !== undefined &&
\* parsed.version !== actualVersion
versionMismatchOf(parsedRef, targetNode) ==
    /\ Has(parsedRef, "version")
    /\ Has(targetNode.attrs, "version")
    /\ parsedRef.version # targetNode.attrs["version"]

FragmentOutcomeErrorMutant(fragment, fr) ==
    LET hasError == Has(fr, "error")
        hasWarning == ~hasError /\ Has(fr, "warning")
        isAll == fragment.type = "query-all"
        empty == Len(fr.nodes) = 0
    IN  Opt("fragment", ~isAll /\ ~empty, fr.nodes[1])
        @@ Opt("fragments", isAll, fr.nodes)
        @@ Opt("fragmentError", hasError, fr.error)
        @@ Opt("fragmentError", ~isAll /\ ~hasError,
               <<"Fragment not found: ">> \o formatFragment(fragment))
        @@ Opt("fragmentWarning", isAll /\ empty /\ ~hasError,
               <<"No elements matched query-all: #query-all(">> \o fragment.value \o <<")">>)
        @@ Opt("fragmentWarning", hasWarning, fr.warning)

\* the fragment fields of the result, from what resolveFragment returned
fragmentOutcome(fragment, fr) ==
    LET hasError == Has(fr, "error")
        hasWarning == ~hasError /\ Has(fr, "warning")
        isAll == fragment.type = "query-all"
        empty == Len(fr.nodes) = 0
    IN  Opt("fragment", ~isAll /\ ~empty, fr.nodes[1])
        @@ Opt("fragments", isAll, fr.nodes)
        @@ Opt("fragmentError", hasError, fr.error)
        @@ Opt("fragmentError", ~isAll /\ empty /\ ~hasError,
               <<"Fragment not found: ">> \o formatFragment(fragment))
        @@ Opt("fragmentWarning", isAll /\ empty /\ ~hasError,
               <<"No elements matched query-all: #query-all(">> \o fragment.value \o <<")">>)
        @@ Opt("fragmentWarning", hasWarning, fr.warning)

\* resolveRef, after the target was loaded and parsed
resolveLoaded(base, targetNode) ==
    LET parsedRef == base.parsed
        found == base
            @@ [exists |-> TRUE, versionMismatch |-> versionMismatchOf(parsedRef, targetNode)]
            @@ Opt("requestedVersion", Has(parsedRef, "version"), parsedRef.version)
            @@ Opt("actualVersion", Has(targetNode.attrs, "version"), targetNode.attrs["version"])
    IN  IF ~Has(parsedRef, "fragment") THEN Return(found)
        ELSE LET fragmentResult == resolveFragment(parsedRef.fragment, targetNode)
             IN  IF fragmentResult.threw THEN fragmentResult
                 ELSE Return(found @@ fragmentOutcome(parsedRef.fragment, fragmentResult.value))

\* resolveRef(ref, {fs, projectRoot, currentFile})
resolveRef(ref, fs, cur) ==
    LET parsedRef == parseRef(ref)
        resolvedPath == resolvePath(parsedRef, cur)
        base == [original |-> ref, parsed |-> parsedRef, resolvedPath |-> resolvedPath]
    IN  IF ~fsExists(fs, resolvedPath) THEN Return(notFoundResult(base))
        ELSE LET content == fsRead(fs, resolvedPath)
                 target == IF content.threw THEN content ELSE parseXml(content.value)
             IN  IF target.threw THEN Return(parseFailedResult(base, target.message))
                 ELSE resolveLoaded(base, target.value)

RECURSIVE SplitSpacesMutant(_, _)
SplitSpacesMutant(s, token) ==
    IF Len(s) = 0 THEN (IF Len(token) > 0 THEN <<token>> ELSE <<>>)
    ELSE IF s[1] = " "
    THEN (IF Len(token) > 0 THEN <<token>> ELSE <<>>) \o SplitSpacesMutant(Tail(s), <<>>)
    ELSE SplitSpacesMutant(Tail(s), Append(token, s[1]))

\* parseRefs: the tokens between runs of whitespace, each parsed by parseRef
RECURSIVE SplitWhitespace(_, _)
SplitWhitespace(s, token) ==
    IF Len(s) = 0 THEN (IF Len(token) > 0 THEN <<token>> ELSE <<>>)
    ELSE IF s[1] \in Whitespace
    THEN (IF Len(token) > 0 THEN <<token>> ELSE <<>>) \o SplitWhitespace(Tail(s), <<>>)
    ELSE SplitWhitespace(Tail(s), Append(token, s[1]))

parseRefs(refs) ==
    LET tokens == SplitWhitespace(refs, <<>>)
    IN  [i \in 1..Len(tokens) |-> parseRef(tokens[i])]

RECURSIVE ResolveEachStopMutant(_, _, _)
ResolveEachStopMutant(parsedRefs, fs, cur) ==
    IF Len(parsedRefs) = 0 THEN Return(<<>>)
    ELSE LET resolved == resolveRef(parsedRefs[1].original, fs, cur)
         IN  IF resolved.threw THEN resolved
             ELSE IF ~resolved.value.exists THEN Return(<<resolved.value>>)
             ELSE LET rest == ResolveEachStopMutant(Tail(parsedRefs), fs, cur)
                  IN  IF rest.threw THEN rest
                      ELSE Return(<<resolved.value>> \o rest.value)

\* the loop of resolveRefs: every parsed reference resolved in turn
RECURSIVE resolveEach(_, _, _)
resolveEach(parsedRefs, fs, cur) ==
    IF Len(parsedRefs) = 0 THEN Return(<<>>)
    ELSE LET resolved == resolveRef(parsedRefs[1].original, fs, cur)
         IN  IF resolved.threw THEN resolved
             ELSE LET rest == resolveEach(Tail(parsedRefs), fs, cur)
                  IN  IF rest.threw THEN rest
                      ELSE Return(<<resolved.value>> \o rest.value)

\* resolveRefs(refs, resolver)
resolveRefs(refs, fs, cur) == resolveEach(parseRefs(refs), fs, cur)

----------------------------------------------------------------------------
(* The resolver on a project: a target /p/B of any shape, a second target  *)
(* /p/C, and one call of resolveRef or resolveRefs                         *)

PathDA == <<"/", "p", "/", "d", "/", "A">>
PathB == <<"/", "p", "/", "B">>
PathC == <<"/", "p", "/", "d", "/", "C">>

NodeLabels ==
    {[tagName |-> <<"s">>, attrs |-> <<>>],
     [tagName |-> <<"s">>, attrs |-> ("id" :> <<"i">>)],
     [tagName |-> <<"t">>, attrs |-> ("id" :> <<"i">>)]}

\* the ordered forests of n labelled nodes
RECURSIVE Forests(_)
Forests(n) ==
    IF n = 0 THEN {<<>>}
    ELSE UNION {
            {<<[tagName |-> l.tagName, attrs |-> l.attrs, children |-> kids]>> \o rest :
                l \in NodeLabels, kids \in Forests(k), rest \in Forests(n - 1 - k)} :
            k \in 0..(n - 1)}

Documents ==
    {[kind |-> "xml",
      root |-> [tagName |-> <<"c">>,
                attrs |-> Opt("version", hv, <<"1">>) @@ Opt("id", hi, <<"i">>),
                children |-> kids]] :
        hv \in BOOLEAN, hi \in BOOLEAN, kids \in UNION {Forests(n) : n \in 0..MaxNodes}}

Garbage == [kind |-> "text"]
Binary == [kind |-> "binary"]
PlainCard == [kind |-> "xml",
              root |-> [tagName |-> <<"c">>, attrs |-> ("version" :> <<"1">>), children |-> <<>>]]

ResolveTriples ==
    {[path |-> p] @@ Opt("version", hv, v) @@ Opt("fragment", hf, f) :
        p \in {<<"/", "B">>, <<".", ".", "/", "B">>, <<".", "/", "C">>},
        hv \in BOOLEAN, v \in {<<"1">>, <<"2">>}, hf \in BOOLEAN,
        f \in [type : {"id"}, value : {<<"i">>, <<"j">>}]
              \cup [type : {"query"},
                    value : {<<"/", "/", "s">>, <<"/", "/", "t">>, <<"/", "/", "z">>,
                             <<"/", "/", "@", "i", "d">>, <<"1">>, <<"[">>}]
              \cup [type : {"query-all"},
                    value : {<<"/", "/", "s">>, <<"/", "/", "z">>}]}

\* most tokens in a refs attribute
MaxTokens == 2

TokenInputs ==
    {<<"/", "B", "@", "2">>, <<".", "/", "C">>,
     <<".", ".", "/", "B", "#", "q", "u", "e", "r", "y", "(", "/", "/", "s", ")">>}

TokenLists == UNION {[1..n -> TokenInputs] : n \in 0..MaxTokens}

\* the tokens of l, separated and surrounded by whitespace
RECURSIVE Spaced(_, _, _)
Spaced(l, sep, lead) ==
    IF Len(l) = 0 THEN lead
    ELSE IF Len(l) = 1 THEN lead \o l[1] \o lead
    ELSE lead \o l[1] \o sep \o Spaced(Tail(l), sep, <<>>) \o lead

Spacings == {[sep |-> <<" ">>, lead |-> <<>>], [sep |-> <<"\t", "\n">>, lead |-> <<" ">>]}

InitResolve ==
    /\ \E b \in Documents \cup {Garbage, Binary, NoValue}, hasC \in BOOLEAN :
        files = (PathDA :> PlainCard)
                @@ Opt(PathB, b # NoValue, b) @@ Opt(PathC, hasC, PlainCard)
    /\ currentFile = PathDA
    /\ phase = "ready"
    /\ refText = <<>>
    /\ parsed = NoValue
    /\ written = NoValue
    /\ result = NoValue
    /\ results = <<>>
    /\ raised = FALSE
    /\ mv = NoValue
    /\ cache = <<>>

\* one call of resolveRef
ResolveRef ==
    /\ phase = "ready"
    /\ \E t \in ResolveTriples :
        \E done \in {resolveRef(FormatRef(t), files, currentFile)} :
            /\ written' = t
            /\ refText' = FormatRef(t)
            /\ raised' = done.threw
            /\ result' = IF done.threw THEN NoValue ELSE done.value
    /\ phase' = "resolved"
    /\ UNCHANGED <<files, parsed, results, currentFile, mv, cache>>

\* one call of resolveRefs
ResolveRefs ==
    /\ phase = "ready"
    /\ \E l \in TokenLists, sp \in Spacings :
        \E refs \in {Spaced(l, sp.sep, sp.lead)} :
        \E done \in {resolveRefs(refs, files, currentFile)} :
            /\ written' = l
            /\ refText' = refs
            /\ raised' = done.threw
            /\ results' = IF done.threw THEN <<>> ELSE done.value
    /\ phase' = "resolvedAll"
    /\ UNCHANGED <<files, parsed, result, currentFile, mv, cache>>

NextResolve == ResolveRef \/ ResolveRefs

SpecResolve == InitResolve /\ [][NextResolve]_vars

----------------------------------------------------------------------------
(* Claims about the resolver *)

\* the content stored under the resolved path of the result
TargetExists == normalizePath(result.resolvedPath) \in DOMAIN files
TargetContent == files[normalizePath(result.resolvedPath)]
TargetParses == TargetExists /\ TargetContent.kind = "xml"
TargetRoot == TargetContent.root

\* the positions of the nodes of a tree: the child indexes (0-based) from the root
RECURSIVE Positions(_)
Positions(node) ==
    {<<>>} \cup UNION {{<<i - 1>> \o p : p \in Positions(node.children[i])} :
                        i \in 1..Len(node.children)}

RECURSIVE NodeAt(_, _)
NodeAt(node, p) == IF Len(p) = 0 THEN node ELSE NodeAt(node.children[p[1] + 1], Tail(p))

\* p comes before q in document order (a node before its descendants, a
\* subtree before the subtrees of the later siblings)
DocBefore(p, q) ==
    \/ Len(p) < Len(q) /\ SubSeq(q, 1, Len(p)) = p
    \/ \E i \in 1..Len(p) :
        /\ i <= Len(q)
        /\ SubSeq(p, 1, i - 1) = SubSeq(q, 1, i - 1)
        /\ p[i] < q[i]

\* the positions of the elements an expression //name selects; the other
\* expressions drawn select no element
Matches(expr, root) ==
    IF Len(expr) = 3 /\ expr[1] = "/" /\ expr[2] = "/" /\ expr[3] # "@"
    THEN {p \in Positions(root) : NodeAt(root, p).tagName = <<expr[3]>>}
    ELSE {}

FirstInDocOrder(M) == CHOOSE p \in M : \A q \in M \ {p} : DocBefore(p, q)

ElementAt(root, p) == [at |-> p, node |-> NodeAt(root, p)]

\* the number written in decimal by the one-character strings ds
RECURSIVE DecimalValue(_)
DecimalValue(ds) ==
    IF Len(ds) = 0 THEN 0
    ELSE 10 * DecimalValue(SubSeq(ds, 1, Len(ds) - 1))
         + (CHOOSE d \in 0..9 : <<"0", "1", "2", "3", "4", "5", "6", "7", "8", "9">>[d + 1] = ds[Len(ds)])

\* the message says "matched k elements"
NamesCount(message, k) ==
    \E i \in 1..Len(message), j \in 1..Len(message) :
        /\ i + 1 < j
        /\ message[i] = "\" matched "
        /\ message[j] = " elements, expected 1"
        /\ \A n \in (i + 1)..(j - 1) : message[n] \in Digits
        /\ DecimalValue(SubSeq(message, i + 1, j - 1)) = k

Resolved == phase = "resolved" /\ ~raised

C2_NeverRaises ==
    phase = "resolved" =>
        /\ ~raised
        /\ Has(result, "exists")
        /\ result.exists \in BOOLEAN

\* an invalid XPath expression on a target that exists and parses
C2_Witness ==
    /\ Resolved
    /\ TargetParses
    /\ Has(written, "fragment")
    /\ written.fragment = [type |-> "query", value |-> <<"[">>]
    /\ Has(result, "fragmentError")

\* C3: a missing target gives exists = false, a non-empty error and none of
\* the version and fragment fields, whatever the reference carries.
C3_MissingTarget ==
    (Resolved /\ ~TargetExists) =>
        /\ result.exists = FALSE
        /\ Has(result, "error")
        /\ Len(result.error) > 0
        /\ \A f \in {"requestedVersion", "actualVersion", "fragment", "fragments",
                     "fragmentError", "fragmentWarning"} : ~Has(result, f)

C3_Witness ==
    /\ Resolved
    /\ ~TargetExists
    /\ Has(written, "version")
    /\ Has(written, "fragment")
    /\ result.exists = FALSE

QueryOnTarget ==
    /\ Resolved
    /\ TargetParses
    /\ Has(written, "fragment")
    /\ written.fragment.type = "query"

\* C4: a #query(X) fragment on an existing target: one match is the fragment,
\* with no error and no warning; no match is a fragmentError with no
\* fragment; k > 1 matches give the first match in document order and a
\* fragmentWarning that names k.
C4_QueryOutcome ==
    QueryOnTarget =>
        LET M == Matches(written.fragment.value, TargetRoot)
            k == Cardinality(M)
        IN  /\ k = 1 =>
                /\ Has(result, "fragment")
                /\ result.fragment = ElementAt(TargetRoot, FirstInDocOrder(M))
                /\ ~Has(result, "fragmentError")
                /\ ~Has(result, "fragmentWarning")
            /\ k = 0 =>
                /\ Has(result, "fragmentError")
                /\ ~Has(result, "fragment")
            /\ k > 1 =>
                /\ Has(result, "fragment")
                /\ result.fragment = ElementAt(TargetRoot, FirstInDocOrder(M))
                /\ Has(result, "fragmentWarning")
                /\ NamesCount(result.fragmentWarning, k)

\* several matches, one of them nested inside the first
C4_Witness ==
    /\ QueryOnTarget
    /\ Cardinality(Matches(written.fragment.value, TargetRoot)) > 1
    /\ Has(result, "fragmentWarning")
    /\ Has(result, "fragment")
    /\ \E p \in Matches(written.fragment.value, TargetRoot) : Len(p) > Len(result.fragment.at)

\* the positions of M in document order
RECURSIVE InDocOrder(_)
InDocOrder(M) ==
    IF M = {} THEN <<>>
    ELSE <<FirstInDocOrder(M)>> \o InDocOrder(M \ {FirstInDocOrder(M)})

\* C5: a #query-all(X) fragment on an existing target gives in fragments all
\* the matching elements in document order; with no match fragments is empty,
\* fragmentWarning is set and fragmentError is not.
C5_QueryAllOutcome ==
    (/\ Resolved
     /\ TargetParses
     /\ Has(written, "fragment")
     /\ written.fragment.type = "query-all") =>
        LET M == Matches(written.fragment.value, TargetRoot)
            ordered == InDocOrder(M)
        IN  /\ Has(result, "fragments")
            /\ result.fragments = [i \in 1..Len(ordered) |-> ElementAt(TargetRoot, ordered[i])]
            /\ M = {} => Has(result, "fragmentWarning") /\ ~Has(result, "fragmentError")

FragmentFields == {"fragment", "fragments", "fragmentError", "fragmentWarning"}

\* C6 as stated: at most one of fragment, fragments, fragmentError and
\* fragmentWarning is set in a result.
C6_AtMostOneOutcome ==
    Resolved => Cardinality({f \in FragmentFields : Has(result, f)}) <= 1

\* C6 amended: fragment is never set together with fragments or with
\* fragmentError, and fragmentError is never set together with
\* fragmentWarning; a fragmentWarning may accompany the fragment it is about.
C6_ExclusiveOutcomes ==
    Resolved =>
        /\ ~(Has(result, "fragment") /\ Has(result, "fragments"))
        /\ ~(Has(result, "fragment") /\ Has(result, "fragmentError"))
        /\ ~(Has(result, "fragmentError") /\ Has(result, "fragmentWarning"))
        /\ ~Has(written, "fragment") => \A f \in FragmentFields : ~Has(result, f)

C6_Witness ==
    /\ Resolved
    /\ Has(result, "fragment")
    /\ Has(result, "fragmentWarning")
    /\ ~Has(result, "fragmentError")

\* C7: resolveRefs returns one result per token, in order, each the result of
\* resolveRef for that token alone; a missing target or a failed fragment
\* does not stop the later tokens from being resolved.
C7_OnePerToken ==
    phase = "resolvedAll" =>
        /\ ~raised
        /\ Len(results) = Len(written)
        /\ \A i \in 1..Len(written) :
            /\ results[i].original = written[i]
            /\ results[i] = resolveRef(written[i], files, currentFile).value

\* a token with a missing target, then a token that resolves
C7_Witness ==
    /\ phase = "resolvedAll"
    /\ ~raised
    /\ Len(results) = 2
    /\ ~results[1].exists
    /\ results[2].exists
    /\ Has(results[2], "fragment")

----------------------------------------------------------------------------
(* Moving a card: path helpers, the file accessor's list, write and move,  *)
(* and the steps of move                                                   *)

\* dirname: the path before its last "/", "." when it has none
dirname(path) ==
    LET lastSlash == LastIndexOf(path, "/")
    IN  IF lastSlash = 0 THEN <<".">> ELSE SubSeq(path, 1, lastSlash - 1)

\* basename: the path after its last "/"
basename(path) ==
    LET lastSlash == LastIndexOf(path, "/")
    IN  IF lastSlash = 0 THEN path ELSE SubSeq(path, lastSlash + 1, Len(path))

\* extname: the file name from its last "." on, "" when it has none
extname(filename) ==
    LET lastDot == LastIndexOf(filename, ".")
    IN  IF lastDot = 0 THEN <<>> ELSE SubSeq(filename, lastDot, Len(filename))

\* basenameWithoutExt
basenameWithoutExt(filename) ==
    LET ext == extname(filename)
    IN  IF Len(ext) > 0 THEN SubSeq(filename, 1, Len(filename) - Len(ext)) ELSE filename

\* MemoryFileSystem.list: the first segments of the text files below path
fsList(fs, path) ==
    LET normalized == normalizePath(path)
        prefix == IF EndsWith(normalized, <<"/">>) THEN normalized ELSE normalized \o <<"/">>
    IN  {SplitOn(SubSeq(filePath, Len(prefix) + 1, Len(filePath)), "/")[1] :
            filePath \in {f \in DOMAIN fs : fs[f].kind # "binary" /\ StartsWith(f, prefix)}}
        \ {<<>>}

FsWriteNothingMutant(fs, path, content) == fs

\* MemoryFileSystem.write
fsWrite(fs, path, content) == (normalizePath(path) :> content) @@ fs

FsMoveDropsContentMutant(fs, from, to) ==
    IF normalizePath(from) \in DOMAIN fs
    THEN Return([f \in (DOMAIN fs \ {normalizePath(from)}) \cup {normalizePath(to)} |->
                    IF f = normalizePath(to) THEN [kind |-> "text"] ELSE fs[f]])
    ELSE Throw(<<"File not found: ">> \o from)

\* MemoryFileSystem.move: the content leaves the old path for the new one
fsMove(fs, from, to) ==
    LET normalizedFrom == normalizePath(from)
        normalizedTo == normalizePath(to)
    IN  IF normalizedFrom \in DOMAIN fs
        THEN Return([f \in (DOMAIN fs \ {normalizedFrom}) \cup {normalizedTo} |->
                        IF f = normalizedTo THEN fs[normalizedFrom] ELSE fs[f]])
        ELSE Throw(<<"File not found: ">> \o from)

\* the extension of card files
CardExt == <<".", "c">>

\* every card file of the project
listCards(fs) ==
    {f \in DOMAIN fs : StartsWith(f, projectRoot \o <<"/">>) /\ extname(basename(f)) = CardExt}

\* the files next to the card with its basename and another extension
siblingsOf(fs, cardPath) ==
    LET dir == dirname(cardPath)
        cardBasename == basenameWithoutExt(basename(cardPath))
        cardExt == extname(basename(cardPath))
    IN  {dir \o <<"/">> \o entry :
            entry \in {e \in fsList(fs, dir) :
                          basenameWithoutExt(e) = cardBasename /\ extname(e) # cardExt}}

RECURSIVE CommonPrefixLen(_, _)
CommonPrefixLen(a, b) ==
    IF Len(a) = 0 \/ Len(b) = 0 THEN 0
    ELSE IF a[1] # b[1] THEN 0
    ELSE 1 + CommonPrefixLen(Tail(a), Tail(b))

\* the relative path that leads from the directory fromDir to the file toPath
relativePath(fromDir, toPath) ==
    LET fromParts == SplitOn(fromDir, "/")
        toParts == SplitOn(dirname(toPath), "/")
        n == CommonPrefixLen(fromParts, toParts)
        ups == [i \in 1..(Len(fromParts) - n) |-> <<".", ".">>]
        downs == SubSeq(toParts, n + 1, Len(toParts))
        rel == JoinWith(ups \o downs \o <<basename(toPath)>>, "/")
    IN  IF Len(ups) = 0 THEN <<".", "/">> \o rel ELSE rel

\* a token of the card at cardPath resolves to the path from
pointsAt(token, cardPath, from) ==
    normalizePath(resolvePath(parseRef(token), cardPath)) = normalizePath(from)

\* the token with a new path and its @version and #fragment text kept
rewriteToken(token, cardPath, from, to) ==
    IF pointsAt(token, cardPath, from)
    THEN relativePath(dirname(cardPath), to)
         \o SubSeq(token, Len(parseRef(token).path) + 1, Len(token))
    ELSE token

\* the tokens of a ref or refs attribute
tokensOf(key, value) ==
    IF key = "ref" THEN <<value>>
    ELSE IF key = "refs" THEN SplitWhitespace(value, <<>>)
    ELSE <<>>

\* how many tokens of the attribute resolve to from
countAttr(key, value, cardPath, from) ==
    Cardinality({i \in DOMAIN tokensOf(key, value) :
                    pointsAt(tokensOf(key, value)[i], cardPath, from)})

rewriteAttr(key, value, cardPath, from, to) ==
    IF countAttr(key, value, cardPath, from) = 0 THEN value
    ELSE LET tokens == tokensOf(key, value)
         IN  JoinWith([i \in DOMAIN tokens |-> rewriteToken(tokens[i], cardPath, from, to)], " ")

RECURSIVE rewriteNode(_, _, _, _)
rewriteNode(node, cardPath, from, to) ==
    [tagName |-> node.tagName,
     attrs |-> [key \in DOMAIN node.attrs |->
                   rewriteAttr(key, node.attrs[key], cardPath, from, to)],
     children |-> [i \in DOMAIN node.children |->
                      rewriteNode(node.children[i], cardPath, from, to)]]

RECURSIVE SumOver(_, _)
SumOver(S, f) ==
    IF S = {} THEN 0
    ELSE LET x == CHOOSE x \in S : TRUE IN f[x] + SumOver(S \ {x}, f)

RECURSIVE countNode(_, _, _)
countNode(node, cardPath, from) ==
    SumOver(DOMAIN node.attrs,
            [key \in DOMAIN node.attrs |-> countAttr(key, node.attrs[key], cardPath, from)])
    + SumOver(DOMAIN node.children,
              [i \in DOMAIN node.children |-> countNode(node.children[i], cardPath, from)])

\* one other card of the scan: skipped when it cannot be read or parsed,
\* else its tokens that resolve to from rewritten
rewriteCard(fs, cardPath, from, to) ==
    LET content == fsRead(fs, cardPath)
        tree == IF content.threw THEN content ELSE parseXml(content.value)
    IN  IF tree.threw THEN [refsUpdated |-> 0]
        ELSE [refsUpdated |-> countNode(tree.value, cardPath, from),
              content |-> [kind |-> "xml",
                           root |-> rewriteNode(tree.value, cardPath, from, to)]]

RECURSIVE SetToSeq(_)
SetToSeq(S) ==
    IF S = {} THEN <<>>
    ELSE LET x == CHOOSE x \in S : TRUE IN <<x>> \o SetToSeq(S \ {x})

\* where a sibling goes: the new directory and basename, its own extension
siblingTarget(sibling, to) ==
    dirname(to) \o <<"/">> \o basenameWithoutExt(basename(to)) \o extname(basename(sibling))

\* the start of move: the two rejections, then the renames staged
moveStart(fs, from, to) ==
    IF extname(basename(to)) # extname(basename(from))
    THEN Throw(<<"Cannot change extension">>)
    ELSE IF ~fsExists(fs, from)
    THEN Throw(<<"Card not found: ">> \o from)
    ELSE LET siblings == SetToSeq(siblingsOf(fs, from))
         IN  Return(<<[from |-> from, to |-> to]>>
                    \o [i \in DOMAIN siblings |->
                           [from |-> siblings[i], to |-> siblingTarget(siblings[i], to)]])

----------------------------------------------------------------------------
(* move on a project: the card /p/T.c, a media file next to it, cards that *)
(* refer to it from its directory and from below, and a file that is no    *)
(* card                                                                    *)

PathT == <<"/", "p", "/", "T", ".", "c">>
PathTg == <<"/", "p", "/", "T", ".", "g">>
PathTb == <<"/", "p", "/", "T", ".", "b">>
PathOg == <<"/", "p", "/", "O", ".", "g">>
PathM == <<"/", "p", "/", "M", ".", "c">>
PathN == <<"/", "p", "/", "d", "/", "N", ".", "c">>
PathG == <<"/", "p", "/", "G", ".", "c">>

Media == [kind |-> "text"]

LinkNodes ==
    {[tagName |-> <<"x">>, attrs |-> ("ref" :> r), children |-> <<>>] :
        r \in {<<".", "/", "T", ".", "c">>,
               <<".", "/", "T", ".", "c", "@", "1", "#", "s">>,
               <<"/", "T", ".", "c">>,
               <<".", "/", "O", ".", "c">>}}
    \cup {[tagName |-> <<"x">>,
           attrs |-> ("refs" :> <<".", "/", "O", ".", "c", " ", ".", "/", "T", ".", "c", "#", "s">>),
           children |-> <<>>]}

\* most links in the card /p/M.c, each of them another one
MaxLinks == 2

CardWith(kids) ==
    [kind |-> "xml",
     root |-> [tagName |-> <<"c">>, attrs |-> ("version" :> <<"1">>), children |-> kids]]

\* the card /p/T.c with a reference to one of its own elements
SelfCard ==
    CardWith(<<[tagName |-> <<"x">>,
                attrs |-> ("ref" :> <<".", "/", "T", ".", "c", "#", "s">>),
                children |-> <<>>]>>)

MoveTargets ==
    {<<"/", "p", "/", "U", ".", "c">>,
     <<"/", "p", "/", "d", "/", "T", ".", "c">>,
     <<"/", "p", "/", "T", ".", "x">>,
     <<"/", "p", "/", "d", "/", "U">>,
     <<"/", "p", "/", "U", "@", "1", ".", "c">>}

InitMove ==
    /\ \E t \in {NoValue, PlainCard, SelfCard}, hasTg \in BOOLEAN, hasTb \in BOOLEAN,
          hasN \in BOOLEAN,
          kids \in UNION {{k \in [1..n -> LinkNodes] : \A i, j \in 1..n : i # j => k[i] # k[j]} :
                             n \in 0..MaxLinks} :
        files = Opt(PathT, t # NoValue, t)
                @@ Opt(PathTg, hasTg, Media)
                @@ Opt(PathTb, hasTb, Binary)
                @@ (PathOg :> Media)
                @@ (PathM :> CardWith(kids))
                @@ Opt(PathN, hasN,
                       CardWith(<<[tagName |-> <<"x">>,
                                   attrs |-> ("ref" :> <<".", ".", "/", "T", ".", "c", "#", "s">>),
                                   children |-> <<>>]>>))
                @@ (PathG :> Garbage)
    /\ currentFile = PathT
    /\ phase = "ready"
    /\ refText = <<>>
    /\ parsed = NoValue
    /\ written = NoValue
    /\ result = NoValue
    /\ results = <<>>
    /\ raised = FALSE
    /\ mv = NoValue
    /\ cache = <<>>

\* move(card, newPath) up to its first write: rejected, or the renames
\* staged and the other cards lined up for the scan
MoveCall ==
    /\ phase = "ready"
    /\ \E to \in MoveTargets :
        \E started \in {moveStart(files, currentFile, to)} :
            IF started.threw
            THEN /\ phase' = "failed"
                 /\ raised' = TRUE
                 /\ mv' = [from |-> currentFile, to |-> to, before |-> files,
                           error |-> started.message]
            ELSE /\ phase' = "rewriting"
                 /\ raised' = FALSE
                 /\ mv' = [from |-> currentFile, to |-> to, before |-> files,
                           toScan |-> listCards(files) \ {normalizePath(currentFile)},
                           pending |-> started.value,
                           writes |-> {},
                           movedFiles |-> <<>>,
                           updatedCards |-> <<>>]
    /\ UNCHANGED <<files, refText, parsed, written, result, results, currentFile, cache>>

\* the scan visits one other card and writes it back when a token changed
MoveRewrite ==
    /\ phase = "rewriting"
    /\ \E cardPath \in mv.toScan :
        \E out \in {rewriteCard(files, cardPath, mv.from, mv.to)} :
            /\ files' = IF out.refsUpdated > 0 THEN fsWrite(files, cardPath, out.content)
                        ELSE files
            /\ mv' = [mv EXCEPT
                        !.toScan = @ \ {cardPath},
                        !.writes = IF out.refsUpdated > 0 THEN @ \cup {cardPath} ELSE @,
                        !.updatedCards =
                            IF out.refsUpdated > 0
                            THEN Append(@, [path |-> cardPath, refsUpdated |-> out.refsUpdated])
                            ELSE @]
    /\ UNCHANGED <<phase, refText, parsed, written, result, results, raised, currentFile, cache>>

\* after the scan, the next staged rename; the last one completes the move
MoveRename ==
    /\ phase = "rewriting"
    /\ mv.toScan = {}
    /\ \E next \in {Head(mv.pending)} :
       \E done \in {fsMove(files, next.from, next.to)} :
           IF done.threw
           THEN /\ phase' = "aborted"
                /\ raised' = TRUE
                /\ UNCHANGED <<files, mv, result>>
           ELSE /\ files' = done.value
                /\ mv' = [mv EXCEPT !.pending = Tail(@), !.movedFiles = Append(@, next)]
                /\ phase' = IF Len(mv.pending) = 1 THEN "moved" ELSE "rewriting"
                /\ raised' = FALSE
                /\ result' = IF Len(mv.pending) = 1
                             THEN [movedFiles |-> Append(mv.movedFiles, next),
                                   updatedCards |-> mv.updatedCards]
                             ELSE result
    /\ UNCHANGED <<refText, parsed, written, results, currentFile, cache>>

\* between two renames another writer removes the file staged next, so that
\* the rename of it is rejected
StagedFileVanishes ==
    /\ phase = "rewriting"
    /\ mv.toScan = {}
    /\ Len(mv.movedFiles) > 0
    /\ Len(mv.pending) > 0
    /\ normalizePath(Head(mv.pending).from) \in DOMAIN files
    /\ files' = [f \in DOMAIN files \ {normalizePath(Head(mv.pending).from)} |-> files[f]]
    /\ UNCHANGED <<phase, refText, parsed, written, result, results, raised, currentFile, mv, cache>>

NextMove == MoveCall \/ MoveRewrite \/ MoveRename \/ StagedFileVanishes

SpecMove == InitMove /\ [][NextMove]_vars

----------------------------------------------------------------------------
(* Claims about move *)

MoveCalled == phase \in {"failed", "rewriting", "moved", "aborted"}

\* the text of the last path segment from its last "." on
ExtensionOf(path) ==
    LET name == SplitOn(path, "/")[Len(SplitOn(path, "/"))]
        dots == {i \in 1..Len(name) : name[i] = "."}
    IN  IF dots = {} THEN <<>> ELSE SubSeq(name, SetMax(dots), Len(name))

MoveRejected ==
    \/ ExtensionOf(mv.to) # ExtensionOf(mv.from)
    \/ mv.from \notin DOMAIN mv.before

\* C10: when the new path's extension differs from the old path's, or the
\* source card does not exist, move raises before any card is written and
\* before any file is renamed, and every file of the project is as it was
\* when move was called.
C10_RejectedBeforeMutation ==
    (MoveCalled /\ MoveRejected) =>
        /\ phase = "failed"
        /\ raised
        /\ files = mv.before

\* an extension change refused while a card refers to the source and a
\* media file sits next to it
C10_Witness ==
    /\ phase = "failed"
    /\ ExtensionOf(mv.to) # ExtensionOf(mv.from)
    /\ mv.from \in DOMAIN mv.before
    /\ PathTg \in DOMAIN mv.before
    /\ countNode(mv.before[PathM].root, PathM, mv.from) > 0

\* the ref and refs tokens of a tree, in depth-first order
RECURSIVE TokensIn(_)
RECURSIVE TokensInForest(_)
TokensIn(node) ==
    (IF Has(node.attrs, "ref") THEN <<node.attrs["ref"]>> ELSE <<>>)
    \o (IF Has(node.attrs, "refs") THEN SplitWhitespace(node.attrs["refs"], <<>>) ELSE <<>>)
    \o TokensInForest(node.children)
TokensInForest(children) ==
    IF Len(children) = 0 THEN <<>>
    ELSE TokensIn(children[1]) \o TokensInForest(Tail(children))

\* the cards of a file system that parse
ParsedCards(fs) == {f \in listCards(fs) : fs[f].kind = "xml"}

\* the path a token of the card at cardPath resolves to
TargetOf(token, cardPath) == normalizePath(resolvePath(parseRef(token), cardPath))

\* the token's text after its path: its @version and #fragment
SuffixOf(token) == SubSeq(token, Len(parseRef(token).path) + 1, Len(token))

MoveDone == phase = "moved"

\* the cards other than the moved one, which keep their path over the move
OtherCards == ParsedCards(mv.before) \ {mv.from}

\* every token of another card that resolved to the old path resolves to
\* the new one, its suffix unchanged
RetargetedWithSuffix ==
    \A c \in OtherCards :
        LET old == TokensIn(mv.before[c].root)
            new == TokensIn(files[c].root)
        IN  /\ Len(new) = Len(old)
            /\ \A i \in 1..Len(old) :
                TargetOf(old[i], c) = mv.from =>
                    /\ TargetOf(new[i], c) = mv.to
                    /\ SuffixOf(new[i]) = SuffixOf(old[i])

PlainPath(path) == parseRef(path).path = path

SiblingFiles(fs, cardPath) ==
    {f \in DOMAIN fs :
        /\ f # cardPath
        /\ dirname(f) = dirname(cardPath)
        /\ ExtensionOf(f) # ExtensionOf(cardPath)
        /\ SubSeq(f, 1, Len(f) - Len(ExtensionOf(f)))
               = SubSeq(cardPath, 1, Len(cardPath) - Len(ExtensionOf(cardPath)))}

\* where the claim sends a sibling: the new path with the sibling's extension
RenamedSibling(f, to) ==
    SubSeq(to, 1, Len(to) - Len(ExtensionOf(to))) \o ExtensionOf(f)

NeedsRewrite(c) ==
    \E i \in DOMAIN TokensIn(mv.before[c].root) :
        TargetOf(TokensIn(mv.before[c].root)[i], c) = mv.from

MoveRunning == phase = "rewriting"

\* C13: no rename of the card or of a sibling happens before every card that
\* needs rewriting is written back; while one is still unwritten the card is
\* at its old path and not at the new one.
C13_RenamesAfterRewrites ==
    /\ (MoveRunning \/ MoveDone) /\ Len(mv.movedFiles) > 0 =>
        \A c \in OtherCards : NeedsRewrite(c) => files[c] # mv.before[c]
    /\ MoveRunning /\ (\E c \in OtherCards : NeedsRewrite(c) /\ files[c] = mv.before[c]) =>
        /\ mv.movedFiles = <<>>
        /\ mv.from \in DOMAIN files
        /\ mv.to \notin DOMAIN files
        /\ \A f \in SiblingFiles(mv.before, mv.from) : f \in DOMAIN files

\* one referencing card written back, another still waiting, nothing renamed
C13_Witness ==
    /\ MoveRunning
    /\ PathTg \in DOMAIN files
    /\ \E c \in OtherCards : NeedsRewrite(c) /\ files[c] # mv.before[c]
    /\ \E c \in OtherCards : NeedsRewrite(c) /\ files[c] = mv.before[c]
    /\ mv.from \in DOMAIN files

\* how many tokens of another card resolved to the old path
MatchingTokens(c) ==
    Cardinality({i \in DOMAIN TokensIn(mv.before[c].root) :
                    TargetOf(TokensIn(mv.before[c].root)[i], c) = mv.from})

\* C14: move writes back exactly the other cards with a token that resolved
\* to the old path and writes no other card; updatedCards has one entry per
\* written card, its refsUpdated the number of tokens rewritten there; the
\* tokens that did not resolve to the old path stay as they were.
C14_WritesOnlyChangedCards ==
    MoveDone =>
        LET needing == {c \in OtherCards : NeedsRewrite(c)}
        IN  /\ mv.writes = needing
            /\ \A c \in needing : files[c] # mv.before[c]
            /\ \A f \in DOMAIN mv.before \ needing :
                f \in DOMAIN files => files[f] = mv.before[f]
            /\ Len(result.updatedCards) = Cardinality(needing)
            /\ {result.updatedCards[i].path : i \in DOMAIN result.updatedCards} = needing
            /\ \A i \in DOMAIN result.updatedCards :
                result.updatedCards[i].refsUpdated = MatchingTokens(result.updatedCards[i].path)
            /\ \A c \in needing :
                LET old == TokensIn(mv.before[c].root)
                    new == TokensIn(files[c].root)
                IN  /\ Len(new) = Len(old)
                    /\ \A i \in 1..Len(old) :
                        IF TargetOf(old[i], c) = mv.from THEN new[i] # old[i]
                        ELSE new[i] = old[i]

\* a refs attribute with one matching token among two, next to a matching
\* ref, in a card that is written while a card without a match is not
C14_Witness ==
    /\ MoveDone
    /\ PathM \in mv.writes
    /\ PathN \in DOMAIN files
    /\ MatchingTokens(PathM) = 2
    /\ Len(TokensIn(mv.before[PathM].root)) = 3
    /\ PathG \notin mv.writes

----------------------------------------------------------------------------
(* The link graph: the edges out of a card and the edges into a path *)

\* the edge built from what resolveRef returned for a token
edgeFrom(resolved, token, node, key, cardPath) ==
    IF resolved.threw THEN <<>>
    ELSE <<[fromPath |-> cardPath,
            toPath |-> resolved.value.resolvedPath,
            refString |-> token,
            elementTagName |-> node.tagName,
            attributeName |-> key]
           @@ Opt("version", Has(resolved.value.parsed, "version"),
                  resolved.value.parsed.version)
           @@ Opt("fragment", Has(resolved.value.parsed, "fragment"),
                  resolved.value.parsed.fragment.value)>>

\* the edge of one token of an element's ref or refs attribute
edgeOf(token, node, key, cardPath, fs) ==
    edgeFrom(resolveRef(token, fs, cardPath), token, node, key, cardPath)

RECURSIVE edgesOfTokens(_, _, _, _, _)
edgesOfTokens(tokens, node, key, cardPath, fs) ==
    IF Len(tokens) = 0 THEN <<>>
    ELSE edgeOf(tokens[1], node, key, cardPath, fs)
         \o edgesOfTokens(Tail(tokens), node, key, cardPath, fs)

\* the walk of a tree: the node's ref, the tokens of its refs, its children
RECURSIVE collectRefs(_, _, _)
RECURSIVE collectRefsIn(_, _, _)
collectRefs(node, cardPath, fs) ==
    (IF Has(node.attrs, "ref")
     THEN edgesOfTokens(tokensOf("ref", node.attrs["ref"]), node, "ref", cardPath, fs)
     ELSE <<>>)
    \o (IF Has(node.attrs, "refs")
        THEN edgesOfTokens(tokensOf("refs", node.attrs["refs"]), node, "refs", cardPath, fs)
        ELSE <<>>)
    \o collectRefsIn(node.children, cardPath, fs)
collectRefsIn(children, cardPath, fs) ==
    IF Len(children) = 0 THEN <<>>
    ELSE collectRefs(children[1], cardPath, fs) \o collectRefsIn(Tail(children), cardPath, fs)

\* findOutgoingRefs(path): the card is loaded, then walked
findOutgoingRefs(fs, cardPath) ==
    LET content == fsRead(fs, cardPath)
        tree == IF content.threw THEN content ELSE parseXml(content.value)
    IN  IF tree.threw THEN tree ELSE Return(collectRefs(tree.value, cardPath, fs))

\* the edges of a card that lead to target; a card that cannot be loaded has none
edgesTo(outgoing, target) ==
    LET ToTarget(e) == e.toPath = target
    IN  IF outgoing.threw THEN <<>> ELSE SelectSeq(outgoing.value, ToTarget)

\* the scan of findIncomingRefs over the cards of the project
RECURSIVE incomingFrom(_, _, _)
incomingFrom(cardPaths, fs, target) ==
    IF Len(cardPaths) = 0 THEN <<>>
    ELSE edgesTo(findOutgoingRefs(fs, cardPaths[1]), target)
         \o incomingFrom(Tail(cardPaths), fs, target)

\* findIncomingRefs(path)
findIncomingRefs(fs, target) == Return(incomingFrom(SetToSeq(listCards(fs)), fs, target))

PathO == <<"/", "p", "/", "O", ".", "c">>

GraphLabels ==
    {[tagName |-> <<"s">>, attrs |-> <<>>]}
    \cup {[tagName |-> <<"x">>, attrs |-> ("ref" :> r)] :
             r \in {<<".", "/", "T", ".", "c", "@", "1", "#", "s">>,
                    <<".", "/", "O", ".", "c">>}}
    \cup {[tagName |-> <<"y">>,
           attrs |-> ("refs" :> <<".", "/", "O", ".", "c", " ", "/", "T", ".", "c">>)]}

\* the ordered forests of n elements with or without references
RECURSIVE GraphForests(_)
GraphForests(n) ==
    IF n = 0 THEN {<<>>}
    ELSE UNION {
            {<<[tagName |-> l.tagName, attrs |-> l.attrs, children |-> kids]>> \o rest :
                l \in GraphLabels, kids \in GraphForests(k), rest \in GraphForests(n - 1 - k)} :
            k \in 0..(n - 1)}

InitGraph ==
    /\ \E t \in {NoValue, PlainCard, SelfCard}, hasN \in BOOLEAN,
          kids \in UNION {GraphForests(n) : n \in 0..MaxLinks} :
        files = Opt(PathT, t # NoValue, t)
                @@ (PathM :> CardWith(kids))
                @@ Opt(PathN, hasN,
                       CardWith(<<[tagName |-> <<"x">>,
                                   attrs |-> ("ref" :> <<".", ".", "/", "T", ".", "c", "#", "s">>),
                                   children |-> <<>>]>>))
                @@ (PathG :> Garbage)
                @@ (PathOg :> Media)
    /\ currentFile = PathM
    /\ phase = "ready"
    /\ refText = <<>>
    /\ parsed = NoValue
    /\ written = NoValue
    /\ result = NoValue
    /\ results = <<>>
    /\ raised = FALSE
    /\ mv = NoValue
    /\ cache = <<>>

\* one call of findOutgoingRefs
FindOutgoing ==
    /\ phase = "ready"
    /\ \E cardPath \in {PathM, PathN, PathT, PathG} :
        \E done \in {findOutgoingRefs(files, cardPath)} :
            /\ written' = cardPath
            /\ raised' = done.threw
            /\ results' = IF done.threw THEN <<>> ELSE done.value
    /\ phase' = "outgoing"
    /\ UNCHANGED <<files, refText, parsed, result, currentFile, mv, cache>>

\* one call of findIncomingRefs
FindIncoming ==
    /\ phase = "ready"
    /\ \E target \in {PathT, PathO, PathM} :
        \E done \in {findIncomingRefs(files, target)} :
            /\ written' = target
            /\ raised' = done.threw
            /\ results' = IF done.threw THEN <<>> ELSE done.value
    /\ phase' = "incoming"
    /\ UNCHANGED <<files, refText, parsed, result, currentFile, mv, cache>>

NextGraph == FindOutgoing \/ FindIncoming

SpecGraph == InitGraph /\ [][NextGraph]_vars

----------------------------------------------------------------------------
(* Claims about the link graph *)

\* the places of a tree that hold a token: the position of the element, the
\* attribute, and the index of the token in it
TokenSlots(root) ==
    {<<p, "ref", 1>> : p \in {q \in Positions(root) : Has(NodeAt(root, q).attrs, "ref")}}
    \cup UNION {{<<p, "refs", i>> :
                    i \in 1..Len(SplitWhitespace(NodeAt(root, p).attrs["refs"], <<>>))} :
                p \in {q \in Positions(root) : Has(NodeAt(root, q).attrs, "refs")}}

SlotToken(root, slot) ==
    IF slot[2] = "ref" THEN NodeAt(root, slot[1]).attrs["ref"]
    ELSE SplitWhitespace(NodeAt(root, slot[1]).attrs["refs"], <<>>)[slot[3]]

\* what the claim says of the edge of a slot
SlotEdge(root, slot, cardPath) ==
    [fromPath |-> cardPath,
     toPath |-> resolvePath(parseRef(SlotToken(root, slot)), cardPath),
     attributeName |-> slot[2]]

EdgeCore(e) == [fromPath |-> e.fromPath, toPath |-> e.toPath, attributeName |-> e.attributeName]

\* the edges are, one for one, those of the slots of the card's tree
EdgesMatchSlots(edges, root, cardPath, Keep(_)) ==
    LET slots == {sl \in TokenSlots(root) : Keep(SlotEdge(root, sl, cardPath))}
        mine == {i \in DOMAIN edges : edges[i].fromPath = cardPath}
    IN  /\ Cardinality(mine) = Cardinality(slots)
        /\ \A core \in {SlotEdge(root, sl, cardPath) : sl \in slots}
                       \cup {EdgeCore(edges[i]) : i \in mine} :
            Cardinality({i \in mine : EdgeCore(edges[i]) = core})
                = Cardinality({sl \in slots : SlotEdge(root, sl, cardPath) = core})

AnyEdge(e) == TRUE

\* C15: findOutgoingRefs returns one edge for each ref attribute and one for
\* each token of each refs attribute, on every node at any depth; an edge
\* goes from the card to the resolved path of the token, under the
\* attribute's name, whether or not that path exists.
C15_OutgoingEdges ==
    (phase = "outgoing" /\ written \in ParsedCards(files)) =>
        /\ ~raised
        /\ \A i \in DOMAIN results : results[i].fromPath = written
        /\ EdgesMatchSlots(results, files[written].root, written, AnyEdge)

\* a nested element with a refs attribute, and an edge to a missing target
C15_Witness ==
    /\ phase = "outgoing"
    /\ written = PathM
    /\ Len(results) = 3
    /\ \E sl \in TokenSlots(files[PathM].root) : Len(sl[1]) = 2 /\ sl[2] = "refs"
    /\ \E i \in DOMAIN results : results[i].toPath \notin DOMAIN files

ToWritten(e) == e.toPath = written

\* C16: findIncomingRefs(target) returns exactly the outgoing edges of the
\* project cards that parse whose toPath is the target; a card that does not
\* parse gives no edge and does not make the call fail.
C16_IncomingEdges ==
    phase = "incoming" =>
        /\ ~raised
        /\ \A i \in DOMAIN results :
            /\ results[i].toPath = written
            /\ results[i].fromPath \in ParsedCards(files)
        /\ \A c \in ParsedCards(files) :
            EdgesMatchSlots(results, files[c].root, c, ToWritten)

\* edges into /p/T.c from two cards, one of them with two, beside a card
\* that does not parse and an edge that goes elsewhere
C16_Witness ==
    /\ phase = "incoming"
    /\ written = PathT
    /\ PathG \in listCards(files) /\ PathG \notin ParsedCards(files)
    /\ Cardinality({i \in DOMAIN results : results[i].fromPath = PathM}) = 2
    /\ \E i \in DOMAIN results : results[i].fromPath = PathN
    /\ \E sl \in TokenSlots(files[PathM].root) :
        SlotEdge(files[PathM].root, sl, PathM).toPath # PathT

----------------------------------------------------------------------------
(* Lint engine *)

\* a thrown Error object: its name, its message and, for a ParseError, its
\* location (the line of the failure is not modelled: line ?? 0)
ThrowNamed(name, m) ==
    [threw |-> TRUE, name |-> name, message |-> m]
    @@ Opt("location", name = "ParseError", [startLine |-> 0])

\* the schema registered for <c>: an array of <s> children
schemaAccepts(node) ==
    \A i \in DOMAIN node.children : node.children[i].tagName = <<"s">>

LoaderLoadNoSchemaMutant(fs, path) ==
    LET content == fsRead(fs, path)
    IN  IF content.threw THEN ThrowNamed("Error", content.message)
        ELSE LET node == parseXml(content.value)
             IN  IF node.threw THEN ThrowNamed("ParseError", node.message) ELSE node

\* BaseCardLoader.load: read, parse, validate against the schema registered
\* for the root's tag name
loaderLoad(fs, path) ==
    LET content == fsRead(fs, path)
    IN  IF content.threw THEN ThrowNamed("Error", content.message)
        ELSE LET node == parseXml(content.value)
             IN  IF node.threw THEN ThrowNamed("ParseError", node.message)
                 ELSE IF node.value.tagName = <<"c">> /\ ~schemaAccepts(node.value)
                 THEN ThrowNamed("ValidationError",
                                 path \o <<": Validation failed for <">>
                                 \o node.value.tagName \o <<">">>)
                 ELSE node

\* collectIds: the ids of the tree in depth-first order; an empty id is
\* skipped (if (id))
RECURSIVE collectIds(_)
RECURSIVE collectIdsIn(_)
collectIds(node) ==
    (IF Has(node.attrs, "id") /\ node.attrs["id"] # <<>>
     THEN <<[id |-> node.attrs["id"], location |-> node.location]>>
     ELSE <<>>)
    \o collectIdsIn(node.children)
collectIdsIn(children) ==
    IF Len(children) = 0 THEN <<>>
    ELSE collectIds(Head(children)) \o collectIdsIn(Tail(children))

FindDuplicatesLastSeenMutant(occurrences, seen) ==
    LET Warn(k) ==
            LET before == {j \in 1..(k - 1) : occurrences[j].id = occurrences[k].id}
            IN  [type |-> "id", severity |-> "warning",
                 message |-> <<"Duplicate id \"">> \o occurrences[k].id
                             \o <<"\" (first defined at line ">>
                             \o ToDecimal(occurrences[CHOOSE j \in before :
                                                         \A i \in before : i <= j].location.startLine)
                             \o <<")">>,
                 location |-> occurrences[k].location]
        IsLater(k) == \E j \in 1..(k - 1) : occurrences[j].id = occurrences[k].id
        later == SelectSeq([k \in 1..Len(occurrences) |-> k], IsLater)
    IN  [n \in 1..Len(later) |-> Warn(later[n])]

\* the loop of checkDuplicateIds over the occurrences, with the map seen
RECURSIVE findDuplicates(_, _)
findDuplicates(occurrences, seen) ==
    IF Len(occurrences) = 0 THEN <<>>
    ELSE LET occurrence == Head(occurrences)
         IN  IF occurrence.id \in DOMAIN seen
             THEN <<[type |-> "id", severity |-> "warning",
                     message |-> <<"Duplicate id \"">> \o occurrence.id
                                 \o <<"\" (first defined at line ">>
                                 \o ToDecimal(seen[occurrence.id].location.startLine)
                                 \o <<")">>,
                     location |-> occurrence.location]>>
                  \o findDuplicates(Tail(occurrences), seen)
             ELSE findDuplicates(Tail(occurrences), (occurrence.id :> occurrence) @@ seen)

\* checkDuplicateIds: the warnings it pushes
checkDuplicateIds(root) == findDuplicates(collectIds(root), <<>>)

NoIssues == [errors |-> <<>>, warnings |-> <<>>]

\* the issues of one check followed by those of the next
joinIssues(first, rest) ==
    [errors |-> first.errors \o rest.errors, warnings |-> first.warnings \o rest.warnings]

\* checkSingleRef, after parseRef and resolveRef: the errors and the warnings
\* it pushes
checkResolved(resolved, parsedRef, refStr, location) ==
    LET Issue(severity, message) ==
            [type |-> "reference", severity |-> severity, message |-> message,
             location |-> location]
    IN  IF resolved.threw
        THEN [errors |-> <<Issue("error", <<"Invalid reference \"">> \o refStr \o <<"\": ">>
                                          \o resolved.message)>>,
              warnings |-> <<>>]
        ELSE IF ~resolved.value.exists
        THEN [errors |-> <<Issue("error", <<"Broken reference: ">> \o parsedRef.path
                                          \o <<" does not exist">>)>>,
              warnings |-> <<>>]
        ELSE [errors |->
                  IF Has(resolved.value, "fragmentError") /\ resolved.value.fragmentError # <<>>
                  THEN <<Issue("error", resolved.value.fragmentError)>>
                  ELSE <<>>,
              warnings |->
                  IF resolved.value.versionMismatch
                  THEN <<Issue("warning",
                               <<"Version mismatch: requested ">>
                               \o (IF Has(resolved.value, "requestedVersion")
                                   THEN resolved.value.requestedVersion ELSE <<"unknown">>)
                               \o <<", found ">>
                               \o (IF Has(resolved.value, "actualVersion")
                                   THEN resolved.value.actualVersion ELSE <<"unknown">>))>>
                  ELSE <<>>]

\* checkSingleRef
checkSingleRef(refStr, location, cardPath, fs) ==
    checkResolved(resolveRef(refStr, fs, cardPath), parseRef(refStr), refStr, location)

\* the issues of a list of tokens, in order
RECURSIVE checkTokens(_, _, _, _)
checkTokens(tokens, location, cardPath, fs) ==
    IF Len(tokens) = 0 THEN NoIssues
    ELSE joinIssues(checkSingleRef(Head(tokens), location, cardPath, fs),
                    checkTokens(Tail(tokens), location, cardPath, fs))

\* the tokens checkRefsInNode checks at a node: the ref attribute, then the
\* tokens of the refs attribute; an empty attribute is skipped
refTokens(node) ==
    (IF Has(node.attrs, "ref") /\ node.attrs["ref"] # <<>>
     THEN <<node.attrs["ref"]>> ELSE <<>>)
    \o (IF Has(node.attrs, "refs") /\ node.attrs["refs"] # <<>>
        THEN [i \in 1..Len(parseRefs(node.attrs["refs"])) |->
                 parseRefs(node.attrs["refs"])[i].original]
        ELSE <<>>)

\* checkRefsInNode: the node's tokens, then the children
RECURSIVE checkRefsInNode(_, _, _)
RECURSIVE checkRefsInChildren(_, _, _)
checkRefsInNode(node, cardPath, fs) ==
    joinIssues(checkTokens(refTokens(node), node.location, cardPath, fs),
               checkRefsInChildren(node.children, cardPath, fs))
checkRefsInChildren(children, cardPath, fs) ==
    IF Len(children) = 0 THEN NoIssues
    ELSE joinIssues(checkRefsInNode(Head(children), cardPath, fs),
                    checkRefsInChildren(Tail(children), cardPath, fs))

\* the LintResult of a card that loaded
lintLoaded(path, duplicates, refIssues) ==
    [path |-> path, errors |-> refIssues.errors, warnings |-> duplicates \o refIssues.warnings]

\* lintCard after the load: a load failure becomes the card's only issue
lintOutcome(card, fs, path, checkRefs) ==
    IF card.threw
    THEN [path |-> path,
          errors |-> <<[type |-> IF card.name = "ValidationError" THEN "validation"
                                 ELSE "parse",
                        severity |-> "error",
                        message |-> card.message]
                       @@ Opt("location", Has(card, "location"), card.location)>>,
          warnings |-> <<>>]
    ELSE lintLoaded(path, checkDuplicateIds(card.value),
                    IF checkRefs THEN checkRefsInNode(card.value, path, fs) ELSE NoIssues)

\* lintCard
lintCard(fs, path, checkRefs) == lintOutcome(loaderLoad(fs, path), fs, path, checkRefs)

\* one turn of the loop of lintCards: the result is pushed and counted
accumulate(acc, lintResult) ==
    [results |-> Append(acc.results, lintResult),
     totalErrors |-> acc.totalErrors + Len(lintResult.errors),
     totalWarnings |-> acc.totalWarnings + Len(lintResult.warnings),
     filesWithErrors |-> acc.filesWithErrors + (IF Len(lintResult.errors) > 0 THEN 1 ELSE 0)]

LintEachCountIssuesMutant(fs, paths, checkRefs, acc) ==
    LET lintResults == [i \in 1..Len(paths) |-> lintCard(fs, paths[i], checkRefs)]
        Errors == [i \in DOMAIN paths |-> Len(lintResults[i].errors)]
        Warnings == [i \in DOMAIN paths |-> Len(lintResults[i].warnings)]
    IN  [results |-> acc.results \o lintResults,
         totalErrors |-> acc.totalErrors + SumOver(DOMAIN paths, Errors),
         totalWarnings |-> acc.totalWarnings + SumOver(DOMAIN paths, Warnings),
         filesWithErrors |-> acc.filesWithErrors + SumOver(DOMAIN paths, Errors)]

\* the loop of lintCards over the paths, with its counters
RECURSIVE lintEach(_, _, _, _)
lintEach(fs, paths, checkRefs, acc) ==
    IF Len(paths) = 0 THEN acc
    ELSE lintEach(fs, Tail(paths), checkRefs,
                  accumulate(acc, lintCard(fs, Head(paths), checkRefs)))

\* the LintSummary returned after the loop
summaryOf(acc) == acc @@ [filesChecked |-> Len(acc.results)]

\* lintCards
lintCards(fs, paths, checkRefs) ==
    summaryOf(lintEach(fs, paths, checkRefs,
                       [results |-> <<>>, totalErrors |-> 0, totalWarnings |-> 0,
                        filesWithErrors |-> 0]))

\* lintAll: lintCards over the cards of the project
lintAll(fs, checkRefs) == lintCards(fs, SetToSeq(listCards(fs)), checkRefs)

\* the exit status of the lint script: process.exit(totalErrors > 0 ? 1 : 0)
exitStatus(summary) == IF summary.totalErrors > 0 THEN 1 ELSE 0

----------------------------------------------------------------------------
(* The lint engine on a project: the card /p/L.c of any shape, with or     *)
(* without the card /p/V.c that the schema rejects and the unparsable      *)
(* /p/G.c, the target /p/B, and one call of lintCard, lintCards or the     *)
(* lint script                                                             *)

PathL == <<"/", "p", "/", "L", ".", "c">>
PathV == <<"/", "p", "/", "V", ".", "c">>
PathX == <<"/", "p", "/", "X", ".", "c">>

\* most paths in the list handed to lintCards
MaxPaths == 2

\* the number of elements of a tree
RECURSIVE TreeSize(_)
RECURSIVE ForestSize(_)
TreeSize(node) == 1 + ForestSize(node.children)
ForestSize(children) ==
    IF Len(children) = 0 THEN 0 ELSE TreeSize(Head(children)) + ForestSize(Tail(children))

\* the tree as the parser delivers it, one element per line: every node
\* with the location of its start tag
RECURSIVE withLocations(_, _)
RECURSIVE withLocationsIn(_, _)
withLocations(node, line) ==
    [tagName |-> node.tagName, attrs |-> node.attrs,
     location |-> [startLine |-> line],
     children |-> withLocationsIn(node.children, line + 1)]
withLocationsIn(children, line) ==
    IF Len(children) = 0 THEN <<>>
    ELSE <<withLocations(Head(children), line)>>
         \o withLocationsIn(Tail(children), line + TreeSize(Head(children)))

IdLabels ==
    {[tagName |-> <<"s">>, attrs |-> <<>>],
     [tagName |-> <<"s">>, attrs |-> ("id" :> <<"i">>)],
     [tagName |-> <<"s">>, attrs |-> ("id" :> <<>>)],
     [tagName |-> <<"t">>, attrs |-> ("id" :> <<"i">>)]}

RefLabels ==
    {[tagName |-> <<"s">>, attrs |-> <<>>]}
    \cup {[tagName |-> <<"s">>, attrs |-> ("ref" :> r)] :
             r \in {<<".", "/", "X">>, <<".", "/", "B", "#", "q", "u", "e", "r", "y", "(", "/", "/", "s", ")">>, <<".", "/", "B", "#", "q", "u", "e", "r", "y", "-", "a", "l", "l", "(", "/", "/", "z", ")">>}}
    \cup {[tagName |-> <<"s">>, attrs |-> ("refs" :> <<".", "/", "B", "@", "2", "#", "j", " ", ".", "/", "X">>)]}

\* the ordered forests of n elements labelled from labels
RECURSIVE LintForests(_, _)
LintForests(labels, n) ==
    IF n = 0 THEN {<<>>}
    ELSE UNION {
            {<<[tagName |-> l.tagName, attrs |-> l.attrs, children |-> kids]>> \o rest :
                l \in labels, kids \in LintForests(labels, k),
                rest \in LintForests(labels, n - 1 - k)} :
            k \in 0..(n - 1)}

\* a card file: the tree below a <c version="1"> root, with locations
LintCardWith(rootId, kids) ==
    [kind |-> "xml",
     root |-> withLocations([tagName |-> <<"c">>,
                             attrs |-> ("version" :> <<"1">>) @@ Opt("id", rootId, <<"i">>),
                             children |-> kids], 1)]

\* the target of the references: two <s>, the first with the id i
LintTarget ==
    [kind |-> "xml",
     root |-> [tagName |-> <<"c">>, attrs |-> ("version" :> <<"1">>),
               children |-> <<[tagName |-> <<"s">>, attrs |-> ("id" :> <<"i">>), children |-> <<>>],
                              [tagName |-> <<"s">>, attrs |-> <<>>, children |-> <<>>]>>]]

\* a card the schema rejects, with a duplicate id and a broken reference
RejectedCard ==
    LintCardWith(TRUE,
                 <<[tagName |-> <<"t">>, attrs |-> ("id" :> <<"i">>) @@ ("ref" :> <<".", "/", "X">>),
                    children |-> <<>>]>>)

InitLint ==
    /\ \E broken \in BOOLEAN,
          card \in {LintCardWith(rootId, kids) :
                       rootId \in BOOLEAN,
                       kids \in UNION {LintForests(IdLabels, n) : n \in 0..MaxNodes}}
                   \cup {LintCardWith(FALSE, kids) :
                            kids \in UNION {LintForests(RefLabels, n) : n \in 0..MaxLinks}} :
        files = (PathL :> card)
                @@ Opt(PathV, broken, RejectedCard)
                @@ Opt(PathG, broken, Garbage)
                @@ (PathB :> LintTarget)
    /\ currentFile = PathL
    /\ phase = "ready"
    /\ refText = <<>>
    /\ parsed = NoValue
    /\ written = NoValue
    /\ result = NoValue
    /\ results = <<>>
    /\ raised = FALSE
    /\ mv = NoValue
    /\ cache = <<>>

\* one call of lintCard
LintCard ==
    /\ phase = "ready"
    /\ \E path \in {PathL, PathV, PathG, PathX}, checkRefs \in BOOLEAN :
        /\ written' = [paths |-> <<path>>, checkRefs |-> checkRefs]
        /\ result' = lintCard(files, path, checkRefs)
    /\ phase' = "linted"
    /\ raised' = FALSE
    /\ UNCHANGED <<files, refText, parsed, results, currentFile, mv, cache>>

\* one call of lintCards, reference checks enabled
LintCards ==
    /\ phase = "ready"
    /\ \E n \in 0..MaxPaths : \E paths \in [1..n -> {PathL, PathV, PathG}] :
        /\ written' = [paths |-> paths, checkRefs |-> TRUE]
        /\ result' = lintCards(files, paths, TRUE)
    /\ phase' = "summarised"
    /\ raised' = FALSE
    /\ UNCHANGED <<files, refText, parsed, results, currentFile, mv, cache>>

\* the lint script: lintAll, then the exit status
LintScript ==
    /\ phase = "ready"
    /\ \E summary \in {lintAll(files, TRUE)} :
        /\ written' = [paths |-> SetToSeq(listCards(files)), checkRefs |-> TRUE]
        /\ result' = summary
        /\ results' = <<[exitStatus |-> exitStatus(summary)]>>
    /\ phase' = "exited"
    /\ raised' = FALSE
    /\ UNCHANGED <<files, refText, parsed, currentFile, mv, cache>>

NextLint == LintCard \/ LintCards \/ LintScript

SpecLint == InitLint /\ [][NextLint]_vars

----------------------------------------------------------------------------
(* Claims about the lint engine *)

\* what loading the file at path ends with: "missing", "parse", "validation"
\* or "loaded"
LoadOutcome(path) ==
    IF path \notin DOMAIN files \/ files[path].kind = "binary" THEN "missing"
    ELSE IF files[path].kind # "xml" THEN "parse"
    ELSE IF ~schemaAccepts(files[path].root) THEN "validation"
    ELSE "loaded"

\* lintCard returned for a card that loads
LintedLoaded == phase = "linted" /\ LoadOutcome(written.paths[1]) = "loaded"

\* the positions of the tree whose id attribute is v
IdOccurrences(root, v) ==
    {p \in Positions(root) : Has(NodeAt(root, p).attrs, "id") /\ NodeAt(root, p).attrs["id"] = v}

\* the id values of the tree
IdValues(root) ==
    {NodeAt(root, p).attrs["id"] : p \in {q \in Positions(root) : Has(NodeAt(root, q).attrs, "id")}}

\* the duplicate-id warnings of a lint result
IdWarnings(lintResult) ==
    LET IsId(w) == w.type = "id" IN SelectSeq(lintResult.warnings, IsId)

\* the duplicate-id law for the id value v of the tree: as many warnings at
\* its occurrences as occurrences after the first, one at each of these, none
\* at the first, all citing the line of the first
DuplicateLaw(root, v, W) ==
    LET occ == IdOccurrences(root, v)
        first == FirstInDocOrder(occ)
        Line(p) == NodeAt(root, p).location.startLine
        At(p) == {k \in DOMAIN W : W[k].location = NodeAt(root, p).location}
    IN  /\ Cardinality(UNION {At(p) : p \in occ}) = Cardinality(occ) - 1
        /\ At(first) = {}
        /\ \A p \in occ \ {first} :
            /\ Cardinality(At(p)) = 1
            /\ \A k \in At(p) :
                /\ W[k].severity = "warning"
                /\ W[k].message = <<"Duplicate id \"">> \o v
                                  \o <<"\" (first defined at line ">>
                                  \o ToDecimal(Line(first)) \o <<")">>

\* C17 as stated: for each id value that occurs N times in the card's tree,
\* lintCard emits exactly N-1 duplicate-id warnings, one at each occurrence
\* after the first in depth-first order, each citing the first occurrence
C17_DuplicateIdLaw ==
    LintedLoaded =>
        \A v \in IdValues(files[written.paths[1]].root) :
            DuplicateLaw(files[written.paths[1]].root, v, IdWarnings(result))

\* C17 amended: the law holds for each id value other than the empty string,
\* and an empty id never gets a warning
C17_NonEmptyDuplicateIdLaw ==
    LintedLoaded =>
        LET root == files[written.paths[1]].root
            W == IdWarnings(result)
        IN  /\ \A v \in IdValues(root) \ {<<>>} : DuplicateLaw(root, v, W)
            /\ \A k \in DOMAIN W :
                \E v \in IdValues(root) \ {<<>>} : \E p \in IdOccurrences(root, v) :
                    W[k].location = NodeAt(root, p).location

\* an id that occurs three times, with its two warnings
C17_Witness ==
    /\ LintedLoaded
    /\ Cardinality(IdOccurrences(files[written.paths[1]].root, <<"i">>)) = 3
    /\ Len(IdWarnings(result)) = 2

\* lintCard returned for a card that loads, reference checks enabled
LintedWithRefs == LintedLoaded /\ written.checkRefs

\* the issues of a list that lie at a location and are about a reference
RefIssuesAt(issues, location, severity) ==
    {k \in DOMAIN issues : /\ issues[k].type = "reference"
                           /\ issues[k].severity = severity
                           /\ issues[k].location = location}

\* C18: with reference checks enabled, for each ref/refs token a missing
\* target yields an error, a "fragment not found" outcome yields an error, a
\* version mismatch yields a warning, and every other fragment issue (a #query
\* with several matches, a #query-all with none) yields a warning
C18_RefIssues ==
    LintedWithRefs =>
        LET cardPath == written.paths[1]
            root == files[cardPath].root
        IN  \A slot \in TokenSlots(root) :
                LET resolved == resolveRef(SlotToken(root, slot), files, cardPath).value
                    location == NodeAt(root, slot[1]).location
                IN  /\ ~resolved.exists =>
                        RefIssuesAt(result.errors, location, "error") # {}
                    /\ Has(resolved, "fragmentError") =>
                        \E k \in RefIssuesAt(result.errors, location, "error") :
                            result.errors[k].message = resolved.fragmentError
                    /\ resolved.versionMismatch =>
                        RefIssuesAt(result.warnings, location, "warning") # {}
                    /\ Has(resolved, "fragmentWarning") =>
                        \E k \in RefIssuesAt(result.warnings, location, "warning") :
                            result.warnings[k].message = resolved.fragmentWarning

\* the same without the fragment warnings: what checkSingleRef reports
C18_ReportedRefIssues ==
    LintedWithRefs =>
        LET cardPath == written.paths[1]
            root == files[cardPath].root
        IN  \A slot \in TokenSlots(root) :
                LET resolved == resolveRef(SlotToken(root, slot), files, cardPath).value
                    location == NodeAt(root, slot[1]).location
                IN  /\ ~resolved.exists =>
                        RefIssuesAt(result.errors, location, "error") # {}
                    /\ Has(resolved, "fragmentError") =>
                        \E k \in RefIssuesAt(result.errors, location, "error") :
                            result.errors[k].message = resolved.fragmentError
                    /\ resolved.versionMismatch =>
                        RefIssuesAt(result.warnings, location, "warning") # {}

\* the paths handed to the lint call and the results it returned for them
LintedPaths == written.paths
LintResults == IF phase = "linted" THEN <<result>> ELSE result.results

LintReturned == phase \in {"linted", "summarised", "exited"}

\* the occurrences of a non-empty id after its first one
LaterOccurrences(root) ==
    {p \in Positions(root) :
        /\ Has(NodeAt(root, p).attrs, "id")
        /\ NodeAt(root, p).attrs["id"] # <<>>
        /\ p # FirstInDocOrder(IdOccurrences(root, NodeAt(root, p).attrs["id"]))}

\* the tokens of the card whose target is missing or whose fragment is not found
FailingTokens(root, cardPath) ==
    {slot \in TokenSlots(root) :
        LET resolved == resolveRef(SlotToken(root, slot), files, cardPath).value
        IN  ~resolved.exists \/ Has(resolved, "fragmentError")}

\* the result of a card whose load failed: the failure, once, and nothing else
OnlyLoadFailure(path, lintResult) ==
    /\ Len(lintResult.errors) = 1
    /\ lintResult.errors[1].type = LoadOutcome(path)
    /\ lintResult.errors[1].severity = "error"
    /\ lintResult.warnings = <<>>

\* the result of a card that loaded: its duplicate ids and its failing
\* references, no load failure
FullyLinted(path, lintResult, checkRefs) ==
    /\ Len(IdWarnings(lintResult)) = Cardinality(LaterOccurrences(files[path].root))
    /\ Len(lintResult.errors) =
           IF checkRefs THEN Cardinality(FailingTokens(files[path].root, path)) ELSE 0
    /\ \A k \in DOMAIN lintResult.errors : lintResult.errors[k].type = "reference"

\* C19: a card whose load raises a parse or validation failure gets exactly
\* one error, of type parse or validation, and neither duplicate-id nor
\* reference checks; lintCards and lintAll still lint every other path of the
\* list and return a summary
C19_LoadFailureIsOneError ==
    LintReturned =>
        /\ ~raised
        /\ Len(LintResults) = Len(LintedPaths)
        /\ \A i \in DOMAIN LintedPaths :
            /\ LintResults[i].path = LintedPaths[i]
            /\ LoadOutcome(LintedPaths[i]) \in {"parse", "validation"} =>
                   OnlyLoadFailure(LintedPaths[i], LintResults[i])
            /\ LoadOutcome(LintedPaths[i]) = "loaded" =>
                   FullyLinted(LintedPaths[i], LintResults[i], written.checkRefs)

\* lintCards over a card whose load fails, then over a card that loads and has
\* duplicate ids of its own
C19_Witness ==
    /\ phase = "summarised"
    /\ \E i, j \in DOMAIN LintedPaths :
        /\ i < j
        /\ LoadOutcome(LintedPaths[i]) \in {"parse", "validation"}
        /\ Len(LintResults[i].errors) = 1
        /\ LoadOutcome(LintedPaths[j]) = "loaded"
        /\ Len(IdWarnings(LintResults[j])) > 0

\* C20: lintCards over any list of paths returns filesChecked equal to the
\* number of paths, totalErrors and totalWarnings equal to the sums of the
\* per-card counts, filesWithErrors equal to the number of results with an
\* error; the project is clean (the lint script exits with 0) exactly when
\* totalErrors is 0, whatever totalWarnings is
C20_SummaryCounts ==
    phase \in {"summarised", "exited"} =>
        LET lintResults == result.results
        IN  /\ result.filesChecked = Len(LintedPaths)
            /\ Len(lintResults) = Len(LintedPaths)
            /\ result.totalErrors =
                   SumOver(DOMAIN lintResults,
                           [i \in DOMAIN lintResults |-> Len(lintResults[i].errors)])
            /\ result.totalWarnings =
                   SumOver(DOMAIN lintResults,
                           [i \in DOMAIN lintResults |-> Len(lintResults[i].warnings)])
            /\ result.filesWithErrors =
                   Cardinality({i \in DOMAIN lintResults : Len(lintResults[i].errors) > 0})
            /\ phase = "exited" =>
                   (results[1].exitStatus = 0 <=> result.totalErrors = 0)

\* a project that is clean although the scan has warnings
C20_Witness ==
    /\ phase = "exited"
    /\ results[1].exitStatus = 0
    /\ result.filesChecked > 0
    /\ result.totalWarnings > 0

----------------------------------------------------------------------------
(* Target paths, id fragments and parseRefs (SpecResolve)                  *)

\* the segments of a relative path that name something
NamedSegments(parts) == SelectSeq(parts, LAMBDA s : s # <<".">> /\ s # <<".", ".">>)

\* the number of ".." segments of a relative path
UpCount(parts) == Len(SelectSeq(parts, LAMBDA s : s = <<".", ".">>))

\* the target of a path drawn here (its ".." segments come first): under the
\* project root when it starts with "/", else the directories of the current
\* file less one per "..", followed by the named segments
ExpectedTarget(path) ==
    IF path[1] = "/" THEN <<"/", "p">> \o path
    ELSE LET dirs == SplitOn(dirname(currentFile), "/")
             rel == SplitOn(path, "/")
         IN  JoinWith(SubSeq(dirs, 1, Len(dirs) - UpCount(rel)) \o NamedSegments(rel), "/")

ResolvedRecords ==
    IF phase = "resolved" /\ ~raised THEN {result}
    ELSE IF phase = "resolvedAll" /\ ~raised THEN {results[i] : i \in 1..Len(results)}
    ELSE {}

\* C23: the target path of a resolved reference is the project root followed
\* by the path when the path starts with "/", and otherwise the path resolved
\* against the directory of the current file, each ".." removing one
\* directory and each "." dropped.
C23_TargetPathLaw ==
    \A r \in ResolvedRecords : r.resolvedPath = ExpectedTarget(r.parsed.path)

C23_Witness ==
    /\ phase = "resolved" /\ ~raised
    /\ result.parsed.path = <<".", ".", "/", "B">>
    /\ result.resolvedPath = <<"/", "p", "/", "B">>
    /\ currentFile = <<"/", "p", "/", "d", "/", "A">>

\* the positions of the nodes whose id attribute is id
IdMatches(root, id) ==
    {p \in Positions(root) : Has(NodeAt(root, p).attrs, "id") /\ NodeAt(root, p).attrs["id"] = id}

IdFragmentResolved ==
    /\ Resolved
    /\ Has(written, "fragment") /\ written.fragment.type = "id"
    /\ TargetParses

\* C24: for an id fragment the fragment returned is the first node in
\* document order (root included) whose id attribute is the fragment value,
\* with neither fragmentError nor fragmentWarning also when several nodes
\* carry that id; when no node carries it, fragmentError is set and there is
\* no fragment.
C24_IdFragmentLaw ==
    IdFragmentResolved =>
        LET M == IdMatches(TargetRoot, written.fragment.value)
        IN  IF M = {}
            THEN Has(result, "fragmentError") /\ ~Has(result, "fragment")
            ELSE /\ Has(result, "fragment")
                 /\ result.fragment = ElementAt(TargetRoot, FirstInDocOrder(M))
                 /\ ~Has(result, "fragmentError")
                 /\ ~Has(result, "fragmentWarning")

\* two nodes carry the id, the first of them is not the root and differs from
\* the second
C24_Witness ==
    /\ IdFragmentResolved
    /\ \E p, q \in IdMatches(TargetRoot, written.fragment.value) :
        /\ p # <<>> /\ DocBefore(p, q)
        /\ NodeAt(TargetRoot, p) # NodeAt(TargetRoot, q)
        /\ result.fragment.at = p

\* the maximal runs of non-whitespace characters of s, as <<first, last>>
TokenRuns(s) ==
    {<<i, CHOOSE j \in i..Len(s) :
              /\ \A k \in i..j : s[k] \notin {" ", "\t", "\n"}
              /\ (j = Len(s) \/ s[j + 1] \in {" ", "\t", "\n"})>> :
        i \in {i \in 1..Len(s) :
                 /\ s[i] \notin {" ", "\t", "\n"}
                 /\ (i = 1 \/ s[i - 1] \in {" ", "\t", "\n"})}}

\* the k-th of the runs from the left
RunAt(runs, k) ==
    CHOOSE r \in runs : Cardinality({q \in runs : q[1] < r[1]}) = k - 1

\* C28: parseRefs returns one parsed reference per maximal run of
\* non-whitespace characters (spaces, tabs and newlines separate, leading and
\* trailing whitespace is ignored), in order, and an empty sequence for an
\* empty or whitespace-only input.
C28_ParseRefsSplits ==
    (phase = "resolvedAll" /\ ~raised) =>
        \E runs \in {TokenRuns(refText)} :
            /\ Len(results) = Cardinality(runs)
            /\ \A k \in 1..Len(results) :
                \E r \in {RunAt(runs, k)} :
                    /\ results[k].original = SubSeq(refText, r[1], r[2])
                    /\ results[k].parsed = parseRef(results[k].original)

\* two tokens separated by a tab and a newline, inside leading and trailing
\* spaces
C28_Witness ==
    /\ phase = "resolvedAll" /\ ~raised
    /\ Len(results) = 2
    /\ refText[1] = " " /\ refText[Len(refText)] = " "
    /\ \E i \in 1..(Len(refText) - 1) : refText[i] = "\t" /\ refText[i + 1] = "\n"

\* a whitespace-only input gives no reference
C28_BlankWitness ==
    /\ phase = "resolvedAll" /\ ~raised
    /\ refText = <<" ">>
    /\ results = <<>>

----------------------------------------------------------------------------
(* Further claims about move (SpecMove)                                    *)

\* C30: move rewrites only other cards: after a completed move the content at
\* the new path is the content the moved card had at the old path before the
\* call, its own ref and refs values included (they are not recomputed for
\* the new directory).
C30_MovedCardUnchanged ==
    phase = "moved" =>
        /\ normalizePath(mv.to) \in DOMAIN files
        /\ files[normalizePath(mv.to)] = mv.before[normalizePath(mv.from)]

\* the card refers to itself by a relative path and moves to another
\* directory, where it still carries that text
C30_Witness ==
    /\ phase = "moved"
    /\ mv.before[normalizePath(mv.from)] = SelfCard
    /\ dirname(mv.to) # dirname(mv.from)
    /\ files[normalizePath(mv.to)].root.children[1].attrs["ref"] = <<".", "/", "T", ".", "c", "#", "s">>
    /\ Len(mv.updatedCards) > 0

\* C27: when a rename is rejected after an earlier one was done, move fails
\* and nothing is rolled back: every card the scan rewrote still holds its
\* rewritten content, and every file already renamed is at its new path
\* with the content it had, its old path gone.
C27_NoRollback ==
    phase = "aborted" =>
        /\ raised
        /\ \A i \in 1..Len(mv.updatedCards) :
            files[mv.updatedCards[i].path]
                = rewriteCard(mv.before, mv.updatedCards[i].path, mv.from, mv.to).content
        /\ \A i \in 1..Len(mv.movedFiles) :
            /\ normalizePath(mv.movedFiles[i].to) \in DOMAIN files
            /\ files[normalizePath(mv.movedFiles[i].to)]
                   = mv.before[normalizePath(mv.movedFiles[i].from)]
            /\ normalizePath(mv.movedFiles[i].from) \notin DOMAIN files

\* the card was renamed, a card that referred to it was rewritten, and the
\* rename of its sibling was rejected
C27_Witness ==
    /\ phase = "aborted"
    /\ Len(mv.movedFiles) = 1
    /\ Len(mv.pending) = 1
    /\ Len(mv.updatedCards) > 0
    /\ files # mv.before

----------------------------------------------------------------------------
(* Document model: the element tree built from a DOM (domToObject), the    *)
(* serializer and createElement.                                           *)
(*                                                                         *)
(* A DOM node is an element (nodeType 1, with attrs and childNodes), a     *)
(* text node (3) or a comment (8).  Markup is a sequence of tokens: one    *)
(* per character of text, one per tag and one per comment; the texts drawn *)
(* hold no character that escapeText would change.  A mixed-content item   *)
(* is tagged with its kind: a text, a comment, or an element node.         *)

\* most DOM nodes below the root of a document
MaxItems == 4

\* String.prototype.trimStart
RECURSIVE TrimStart(_)
TrimStart(s) == IF Len(s) > 0 /\ s[1] \in Whitespace THEN TrimStart(Tail(s)) ELSE s

\* String.prototype.trimEnd
RECURSIVE TrimEnd(_)
TrimEnd(s) ==
    IF Len(s) > 0 /\ s[Len(s)] \in Whitespace THEN TrimEnd(SubSeq(s, 1, Len(s) - 1)) ELSE s

\* Array.prototype.join("")
RECURSIVE Concat(_)
Concat(parts) == IF Len(parts) = 0 THEN <<>> ELSE parts[1] \o Concat(Tail(parts))

\* dedent: the common indent of the non-blank lines removed, every line
\* trimmed at its end, the whole trimmed
dedent(text) ==
    LET lines == SplitOn(text, "\n")
        nonEmptyLines == SelectSeq(lines, LAMBDA line : Len(TrimStart(line)) > 0)
        indents == {Len(nonEmptyLines[i]) - Len(TrimStart(nonEmptyLines[i])) :
                        i \in DOMAIN nonEmptyLines}
        minIndent == CHOOSE m \in indents : \A n \in indents : m <= n
    IN  IF Len(nonEmptyLines) = 0 THEN <<>>
        ELSE IF minIndent = 0
        THEN TrimEnd(TrimStart(JoinWith([i \in DOMAIN lines |-> TrimEnd(lines[i])], "\n")))
        ELSE TrimEnd(TrimStart(JoinWith(
                 [i \in DOMAIN lines |->
                     IF Len(TrimStart(lines[i])) = 0 THEN <<>>
                     ELSE TrimEnd(SubSeq(lines[i], minIndent + 1, Len(lines[i])))],
                 "\n")))

\* domToObject.  The loop over childNodes keeps the children built so far,
\* the mixed items (an element item by the index of its child, so that an
\* end comment set on the child later shows in the item too), the pending
\* comment and the two flags.
RECURSIVE domToObject(_, _)
RECURSIVE domChildNodes(_, _, _)
domChildNodes(childNodes, i, acc) ==
    IF i > Len(childNodes) THEN acc
    ELSE LET child == childNodes[i]
         IN  domChildNodes(childNodes, i + 1,
                 IF child.nodeType = 8
                 THEN [acc EXCEPT
                          !.hasComments = TRUE,
                          !.mixed = Append(@, [kind |-> "comment", comment |-> dedent(child.data)]),
                          !.children =
                              IF Len(acc.children) = 0 THEN acc.children
                              ELSE [acc.children EXCEPT ![Len(acc.children)].comments =
                                       ("end" :> dedent(child.data)) @@ @],
                          !.pending = <<dedent(child.data)>>]
                 ELSE IF child.nodeType = 1
                 THEN [acc EXCEPT
                          !.children = Append(@, domToObject(child, acc.pending)),
                          !.mixed = Append(@, [kind |-> "element", index |-> Len(acc.children) + 1]),
                          !.pending = <<>>]
                 ELSE [acc EXCEPT
                          !.hasText = @ \/ Len(TrimStart(child.data)) > 0,
                          !.mixed = Append(@, [kind |-> "text", text |-> child.data])])
domToObject(element, precedingComment) ==
    LET acc == domChildNodes(element.childNodes, 1,
                   [children |-> <<>>, mixed |-> <<>>, pending |-> <<>>,
                    hasText |-> FALSE, hasComments |-> FALSE])
        simpleText == acc.hasText /\ Len(acc.children) = 0 /\ ~acc.hasComments
    IN  [tagName |-> element.tagName,
         attrs |-> element.attrs,
         comments |-> Opt("start", Len(precedingComment) > 0, precedingComment[1]),
         children |-> acc.children]
        @@ Opt("text", simpleText,
               dedent(Concat([i \in DOMAIN acc.mixed |-> acc.mixed[i].text])))
        @@ Opt("mixed", ~simpleText /\ (acc.hasText \/ acc.hasComments),
               [i \in DOMAIN acc.mixed |->
                   IF acc.mixed[i].kind = "element"
                   THEN [kind |-> "element", node |-> acc.children[acc.mixed[i].index]]
                   ELSE acc.mixed[i]])

\* serializeNode: the lines of a node at a depth, each line a sequence of
\* tokens; serializeMixedContent: the tokens of the items, on one line
RECURSIVE serializeNode(_, _, _)
RECURSIVE serializeChildren(_, _, _)
RECURSIVE serializeMixedContent(_)
serializeChildren(children, depth, indent) ==
    IF Len(children) = 0 THEN <<>>
    ELSE serializeNode(children[1], depth, indent)
         \o serializeChildren(Tail(children), depth, indent)
serializeNode(node, depth, indent) ==
    LET padding == [i \in 1..(Len(indent) * depth) |->
                       [t |-> "ch", c |-> indent[((i - 1) % Len(indent)) + 1]]]
        open == [t |-> "open", tagName |-> node.tagName, attrs |-> node.attrs]
        close == [t |-> "close", tagName |-> node.tagName]
        hasChildren == Len(node.children) > 0
        hasText == Has(node, "text") /\ Len(node.text) > 0
        hasMixedContent == Has(node, "mixed") /\ Len(node.mixed) > 0
        textLines == SplitOn(node.text, "\n")
        comment(key) ==
            IF Has(node.comments, key) /\ Len(node.comments[key]) > 0
            THEN <<padding \o <<[t |-> "comment",
                                 data |-> <<" ">> \o TrimEnd(TrimStart(node.comments[key]))
                                          \o <<" ">>]>>>>
            ELSE <<>>
    IN  comment("start")
        \o (IF ~hasChildren /\ ~hasText /\ ~hasMixedContent
            THEN <<padding \o <<[t |-> "empty", tagName |-> node.tagName, attrs |-> node.attrs]>>>>
            ELSE IF hasText /\ ~hasChildren
            THEN IF Len(textLines) > 1
                 THEN <<padding \o <<open>>,
                        JoinWith([i \in DOMAIN textLines |->
                                     [k \in 1..(Len(indent) * (depth + 1)) |->
                                         [t |-> "ch", c |-> indent[((k - 1) % Len(indent)) + 1]]]
                                     \o [k \in DOMAIN textLines[i] |->
                                            [t |-> "ch", c |-> textLines[i][k]]]],
                                 [t |-> "ch", c |-> "\n"]),
                        padding \o <<close>>>>
                 ELSE <<padding \o <<open>>
                        \o [k \in DOMAIN node.text |-> [t |-> "ch", c |-> node.text[k]]]
                        \o <<close>>>>
            ELSE IF hasMixedContent
            THEN <<padding \o <<open>> \o serializeMixedContent(node.mixed) \o <<close>>>>
            ELSE <<padding \o <<open>>>>
                 \o serializeChildren(node.children, depth + 1, indent)
                 \o <<padding \o <<close>>>>)
        \o comment("end")
serializeMixedContent(mixed) ==
    IF Len(mixed) = 0 THEN <<>>
    ELSE LET item == mixed[1]
         IN  (IF item.kind = "text"
              THEN [k \in DOMAIN item.text |-> [t |-> "ch", c |-> item.text[k]]]
              ELSE IF item.kind = "comment"
              THEN <<[t |-> "comment", data |-> <<" ">> \o item.comment \o <<" ">>]>>
              ELSE IF Has(item.node, "text") /\ Len(item.node.text) > 0
              THEN <<[t |-> "open", tagName |-> item.node.tagName, attrs |-> item.node.attrs]>>
                   \o [k \in DOMAIN item.node.text |-> [t |-> "ch", c |-> item.node.text[k]]]
                   \o <<[t |-> "close", tagName |-> item.node.tagName]>>
              ELSE IF Len(item.node.children) > 0
              THEN <<[t |-> "open", tagName |-> item.node.tagName, attrs |-> item.node.attrs]>>
                   \o Concat(serializeChildren(item.node.children, 0, <<>>))
                   \o <<[t |-> "close", tagName |-> item.node.tagName]>>
              ELSE <<[t |-> "empty", tagName |-> item.node.tagName, attrs |-> item.node.attrs]>>)
             \o serializeMixedContent(Tail(mixed))

\* serialize with the default options: the lines joined with "\n"
serialize(node) == JoinWith(serializeNode(node, 0, <<" ", " ">>), [t |-> "ch", c |-> "\n"])

\* DOMParser.parseFromString on well-formed markup: the nodes from token i
\* up to the close tag that ends them, and the index after it; a run of
\* characters is one text node
RECURSIVE parseNodes(_, _)
parseNodes(toks, i) ==
    IF i > Len(toks) THEN [nodes |-> <<>>, next |-> i]
    ELSE IF toks[i].t = "close" THEN [nodes |-> <<>>, next |-> i + 1]
    ELSE IF toks[i].t = "ch"
    THEN LET j == CHOOSE j \in i..Len(toks) :
                      /\ \A k \in i..j : toks[k].t = "ch"
                      /\ (j = Len(toks) \/ toks[j + 1].t # "ch")
             rest == parseNodes(toks, j + 1)
         IN  [nodes |-> <<[nodeType |-> 3, data |-> [k \in 1..(j - i + 1) |-> toks[i + k - 1].c]]>>
                        \o rest.nodes,
              next |-> rest.next]
    ELSE IF toks[i].t = "comment"
    THEN LET rest == parseNodes(toks, i + 1)
         IN  [nodes |-> <<[nodeType |-> 8, data |-> toks[i].data]>> \o rest.nodes,
              next |-> rest.next]
    ELSE LET inner == IF toks[i].t = "open" THEN parseNodes(toks, i + 1)
                      ELSE [nodes |-> <<>>, next |-> i + 1]
             rest == parseNodes(toks, inner.next)
         IN  [nodes |-> <<[nodeType |-> 1, tagName |-> toks[i].tagName, attrs |-> toks[i].attrs,
                           childNodes |-> inner.nodes]>> \o rest.nodes,
              next |-> rest.next]

\* parseXml of markup: the document element of the DOM, through domToObject
parseMarkup(toks) ==
    LET nodes == parseNodes(toks, 1).nodes
    IN  domToObject(nodes[CHOOSE i \in DOMAIN nodes :
                              nodes[i].nodeType = 1
                              /\ \A k \in 1..(i - 1) : nodes[k].nodeType # 1], <<>>)

ProcessChildrenKeepsTextMutant(children) ==
    IF children.kind = "null" THEN [children |-> <<>>]
    ELSE IF children.kind = "text" THEN [text |-> children.text, children |-> <<>>]
    ELSE IF children.kind = "element" THEN [children |-> <<children.node>>]
    ELSE LET filtered == SelectSeq(children.items, LAMBDA c : c.kind # "null")
             elements == SelectSeq(filtered, LAMBDA c : c.kind = "element")
             strings == SelectSeq(filtered, LAMBDA c : c.kind = "text")
         IN  IF Len(filtered) = 0 THEN [children |-> <<>>]
             ELSE [children |-> [i \in DOMAIN elements |-> elements[i].node]]
                  @@ Opt("mixed", Len(strings) > 0 /\ Len(elements) > 0, filtered)
                  @@ Opt("text", Len(strings) > 0,
                         Concat([i \in DOMAIN strings |-> strings[i].text]))

\* processChildren: the JSX children as text, children or mixed items
processChildren(children) ==
    IF children.kind = "null" THEN [children |-> <<>>]
    ELSE IF children.kind = "text" THEN [text |-> children.text, children |-> <<>>]
    ELSE IF children.kind = "element" THEN [children |-> <<children.node>>]
    ELSE LET filtered == SelectSeq(children.items, LAMBDA c : c.kind # "null")
             elements == SelectSeq(filtered, LAMBDA c : c.kind = "element")
             strings == SelectSeq(filtered, LAMBDA c : c.kind = "text")
         IN  IF Len(filtered) = 0 THEN [children |-> <<>>]
             ELSE IF Len(strings) > 0 /\ Len(elements) > 0
             THEN [children |-> [i \in DOMAIN elements |-> elements[i].node],
                   mixed |-> filtered]
             ELSE IF Len(elements) > 0
             THEN [children |-> [i \in DOMAIN elements |-> elements[i].node]]
             ELSE [text |-> Concat([i \in DOMAIN filtered |-> filtered[i].text]),
                   children |-> <<>>]

\* createElement(tagName, {...attrs, children})
createElement(tagName, attrs, children) ==
    [tagName |-> tagName, attrs |-> attrs, comments |-> <<>>,
     children |-> processChildren(children).children]
    @@ Opt("text", Has(processChildren(children), "text"), processChildren(children).text)
    @@ Opt("mixed", Has(processChildren(children), "mixed"), processChildren(children).mixed)

----------------------------------------------------------------------------
(* The document model on its own: every small document parsed, serialized  *)
(* and parsed again, and every small list of JSX children                  *)

\* the ordered forests of n DOM nodes: texts, comments and <b> elements, no
\* two text nodes next to each other
RECURSIVE DomForests(_)
DomForests(n) ==
    IF n = 0 THEN {<<>>}
    ELSE UNION {
            {<<leaf>> \o rest :
                rest \in {r \in DomForests(n - 1) :
                             Len(r) = 0 \/ r[1].nodeType # 3 \/ leaf.nodeType # 3}} :
            leaf \in [nodeType : {3}, data : {<<"x">>, <<" ">>, <<"x", "\n", " ", "y">>}]
                     \cup {[nodeType |-> 8, data |-> <<" ", "k">>]}}
         \cup UNION {
            {<<[nodeType |-> 1, tagName |-> <<"b">>, attrs |-> <<>>, childNodes |-> kids]>>
             \o rest : kids \in DomForests(k), rest \in DomForests(n - 1 - k)} :
            k \in 0..(n - 1)}

\* what JSX hands to createElement as children
JsxChildren ==
    LET items == {[kind |-> "null"], [kind |-> "text", text |-> <<"x">>],
                  [kind |-> "text", text |-> <<>>],
                  [kind |-> "element", node |-> createElement(<<"b">>, <<>>, [kind |-> "null"])],
                  [kind |-> "element",
                   node |-> createElement(<<"b">>, <<>>, [kind |-> "text", text |-> <<"y">>])]}
    IN  items \cup {[kind |-> "array", items |-> l] :
                       l \in UNION {[1..n -> items] : n \in 0..(MaxItems - 1)}}

InitDoc ==
    /\ files = <<>>
    /\ phase = "ready"
    /\ refText = <<>>
    /\ parsed = NoValue
    /\ written = NoValue
    /\ result = NoValue
    /\ results = <<>>
    /\ raised = FALSE
    /\ currentFile = <<>>
    /\ mv = NoValue
    /\ cache = <<>>

\* parseXml of a document: domToObject of its document element
ParseDocument ==
    /\ phase = "ready"
    /\ \E kids \in UNION {DomForests(n) : n \in 0..MaxItems} :
        /\ written' = [nodeType |-> 1, tagName |-> <<"a">>, attrs |-> ("v" :> <<"1">>),
                       childNodes |-> kids]
        /\ parsed' = domToObject(written', <<>>)
    /\ phase' = "parsed"
    /\ UNCHANGED <<files, refText, result, results, raised, currentFile, mv, cache>>

\* serialize of the parsed tree
SerializeParsed ==
    /\ phase = "parsed"
    /\ refText' = serialize(parsed)
    /\ phase' = "serialized"
    /\ UNCHANGED <<files, parsed, written, result, results, raised, currentFile, mv, cache>>

\* parseXml of the serialized markup
ParseSerialized ==
    /\ phase = "serialized"
    /\ result' = parseMarkup(refText)
    /\ phase' = "reparsed"
    /\ UNCHANGED <<files, refText, parsed, written, results, raised, currentFile, mv, cache>>

\* createElement("a", {children})
CreateElement ==
    /\ phase = "ready"
    /\ \E children \in JsxChildren :
        /\ written' = children
        /\ parsed' = createElement(<<"a">>, <<>>, children)
    /\ phase' = "created"
    /\ UNCHANGED <<files, refText, result, results, raised, currentFile, mv, cache>>

NextDoc == ParseDocument \/ SerializeParsed \/ ParseSerialized \/ CreateElement

SpecDoc == InitDoc /\ [][NextDoc]_vars

----------------------------------------------------------------------------
(* Claims about the document model *)

ContentShape(node) ==
    IF Has(node, "text") THEN "text-only"
    ELSE IF Has(node, "mixed") THEN "mixed"
    ELSE "children-only"

\* what the round trip has to keep of a tree
RECURSIVE Structure(_)
Structure(node) ==
    [tagName |-> node.tagName,
     attrs |-> node.attrs,
     text |-> IF Has(node, "text") THEN <<node.text>> ELSE <<>>,
     shape |-> ContentShape(node),
     children |-> [i \in DOMAIN node.children |-> Structure(node.children[i])]]

\* C21: for every parseable document D, parse(serialize(parse(D))) has at
\* every node the tagName, attrs, text, children (order and count) and
\* content shape of parse(D).
C21_RoundTrip ==
    phase = "reparsed" => Structure(result) = Structure(parsed)

\* an element item of mixed content that has mixed content of its own,
\* somewhere in the tree
RECURSIVE HasMixedInMixed(_)
HasMixedInMixed(node) ==
    \/ /\ Has(node, "mixed")
       /\ \E i \in DOMAIN node.mixed :
            node.mixed[i].kind = "element" /\ Has(node.mixed[i].node, "mixed")
    \/ \E i \in DOMAIN node.children : HasMixedInMixed(node.children[i])

\* the round trip keeps the structure of every tree without mixed content
\* inside mixed content
C21_RoundTripOutsideNestedMixed ==
    (phase = "reparsed" /\ ~HasMixedInMixed(parsed)) => Structure(result) = Structure(parsed)

\* the nodes of a tree
RECURSIVE AllNodes(_)
AllNodes(node) == {node} \cup UNION {AllNodes(node.children[i]) : i \in DOMAIN node.children}

ItemKinds(items) == {items[i].kind : i \in DOMAIN items}

\* text and child elements both occur among the items
Interleaved(mixed) == {"text", "element"} \subseteq ItemKinds(mixed)

Produced == phase \in {"parsed", "created"}

ParserKeepsMixed(childNodes) ==
    \/ \E i \in DOMAIN childNodes : childNodes[i].nodeType = 8
    \/ /\ \E i \in DOMAIN childNodes :
            childNodes[i].nodeType = 3 /\ Len(TrimStart(childNodes[i].data)) > 0
       /\ \E i \in DOMAIN childNodes : childNodes[i].nodeType = 1

C22_CreatedWitness ==
    /\ phase = "created"
    /\ Has(parsed, "mixed")
    /\ Len(parsed.mixed) = 3
    /\ Len(parsed.children) = 1

----------------------------------------------------------------------------
(* The loader's cache: load, save, invalidate, clearCache and resolveRef   *)
(* on one loader, while the file /p/B changes under it.  results is the    *)
(* log of the calls: each entry holds the call, what it returned and the   *)
(* cache before and after it; a load and a resolveRef also hold the file   *)
(* system they ran on.                                                     *)

\* most calls on one loader
MaxCalls == 3

LoadAlwaysReadsMutant(fs, entries, path) ==
    [done |-> loaderLoad(fs, path), read |-> TRUE,
     cache |-> IF loaderLoad(fs, path).threw THEN entries
               ELSE (path :> loaderLoad(fs, path).value) @@ entries]

LoadCachesUnvalidatedMutant(fs, entries, path) ==
    IF path \in DOMAIN entries
    THEN [done |-> Return(entries[path]), read |-> FALSE, cache |-> entries]
    ELSE [done |-> loaderLoad(fs, path), read |-> TRUE,
          cache |-> IF LoaderLoadNoSchemaMutant(fs, path).threw THEN entries
                    ELSE (path :> LoaderLoadNoSchemaMutant(fs, path).value) @@ entries]

\* BaseCardLoader.load with its cache: the cached tree without a read, else
\* the tree read, parsed and validated, stored only when all three succeeded
loadCached(fs, entries, path) ==
    IF path \in DOMAIN entries
    THEN [done |-> Return(entries[path]), read |-> FALSE, cache |-> entries]
    ELSE [done |-> loaderLoad(fs, path), read |-> TRUE,
          cache |-> IF loaderLoad(fs, path).threw THEN entries
                    ELSE (path :> loaderLoad(fs, path).value) @@ entries]

\* BaseCardLoader.save: the markup written, and the tree parsed back from it
\* stored in the cache (a file holds the tree its markup parses to)
loaderSave(fs, entries, path, card) ==
    [files |-> fsWrite(fs, path, [kind |-> "xml", root |-> parseMarkup(serialize(card))]),
     cache |-> (path :> parseMarkup(serialize(card))) @@ entries]

LoaderResolveRefFromCacheMutant(ref, fromPath, fs, entries) ==
    resolveRef(ref, [p \in DOMAIN entries |-> [kind |-> "xml", root |-> entries[p]]] @@ fs,
               fromPath)

\* BaseCardLoader.resolveRef: the resolver on the loader's file accessor
loaderResolveRef(ref, fromPath, fs, entries) == resolveRef(ref, fs, fromPath)

InitLoader ==
    /\ files = (PathDA :> PlainCard) @@ (PathB :> PlainCard)
    /\ currentFile = PathDA
    /\ phase = "ready"
    /\ refText = <<>>
    /\ parsed = NoValue
    /\ written = NoValue
    /\ result = NoValue
    /\ results = <<>>
    /\ raised = FALSE
    /\ mv = NoValue
    /\ cache = <<>>

\* loader.load("/p/B")
Load ==
    /\ Len(results) < MaxCalls
    /\ \E out \in {loadCached(files, cache, PathB)} :
        /\ results' = Append(results, [op |-> "load", path |-> PathB, read |-> out.read,
                                       done |-> out.done, fs |-> files,
                                       before |-> cache, after |-> out.cache])
        /\ cache' = out.cache
    /\ UNCHANGED <<files, phase, refText, parsed, written, result, raised, currentFile, mv>>

\* loader.save("/p/B", card) for a card built with createElement
Save ==
    /\ Len(results) < MaxCalls
    /\ \E card \in {createElement(<<"c">>, ("version" :> <<"2">>), [kind |-> "null"]),
                    createElement(<<"c">>, ("version" :> <<"1">>),
                        [kind |-> "array",
                         items |-> <<[kind |-> "text", text |-> <<"x">>],
                                     [kind |-> "element",
                                      node |-> createElement(<<"s">>, <<>>,
                                          [kind |-> "array",
                                           items |-> <<[kind |-> "text", text |-> <<"y">>],
                                                       [kind |-> "element",
                                                        node |-> createElement(<<"s">>, <<>>,
                                                                     [kind |-> "null"])]>>])]>>])} :
        \E out \in {loaderSave(files, cache, PathB, card)} :
            /\ results' = Append(results, [op |-> "save", path |-> PathB, card |-> card,
                                           before |-> cache, after |-> out.cache])
            /\ files' = out.files
            /\ cache' = out.cache
    /\ UNCHANGED <<phase, refText, parsed, written, result, raised, currentFile, mv>>

\* loader.invalidate(path)
Invalidate ==
    /\ Len(results) < MaxCalls
    /\ \E path \in {PathB, PathC} :
        /\ cache' = [p \in DOMAIN cache \ {path} |-> cache[p]]
        /\ results' = Append(results, [op |-> "invalidate", path |-> path,
                                       before |-> cache, after |-> cache'])
    /\ UNCHANGED <<files, phase, refText, parsed, written, result, raised, currentFile, mv>>

\* loader.clearCache()
ClearCache ==
    /\ Len(results) < MaxCalls
    /\ cache' = <<>>
    /\ results' = Append(results, [op |-> "clearCache",
                                   before |-> cache, after |-> <<>>])
    /\ UNCHANGED <<files, phase, refText, parsed, written, result, raised, currentFile, mv>>

\* loader.resolveRef("/B@1", "/p/d/A")
LoaderResolveRef ==
    /\ Len(results) < MaxCalls
    /\ results' = Append(results,
                         [op |-> "resolveRef",
                          done |-> loaderResolveRef(<<"/", "B", "@", "1">>, currentFile,
                                                    files, cache),
                          fs |-> files, before |-> cache, after |-> cache])
    /\ UNCHANGED <<files, phase, refText, parsed, written, result, raised, currentFile, mv,
                   cache>>

\* between two calls the file /p/B is rewritten or removed by someone else
FileChanges ==
    /\ Len(results) < MaxCalls
    /\ \E b \in {PlainCard,
                  [kind |-> "xml",
                   root |-> [tagName |-> <<"c">>, attrs |-> ("version" :> <<"2">>),
                             children |-> <<>>]],
                  RejectedCard, Garbage, NoValue} :
        /\ files' = [f \in DOMAIN files \ {PathB} |-> files[f]] @@ Opt(PathB, b # NoValue, b)
        /\ files' # files
    /\ UNCHANGED <<phase, refText, parsed, written, result, results, raised, currentFile, mv,
                   cache>>

NextLoader == Load \/ Save \/ Invalidate \/ ClearCache \/ LoaderResolveRef \/ FileChanges

SpecLoader == InitLoader /\ [][NextLoader]_vars

----------------------------------------------------------------------------
(* Claims about the loader's cache *)

Calls(op) == {i \in DOMAIN results : results[i].op = op}

\* the calls that load a path, or drop it from the cache, or store it
LoadsOf(p) == {i \in Calls("load") : results[i].path = p}
SavesOf(p) == {i \in Calls("save") : results[i].path = p}
DropsOf(p) == Calls("clearCache") \cup {i \in Calls("invalidate") : results[i].path = p}

\* the file at p can be loaded: it is there, it parses and the schema of
\* its root accepts it
Loadable(fs, p) ==
    /\ p \in DOMAIN fs
    /\ fs[p].kind = "xml"
    /\ fs[p].root.tagName = <<"c">> =>
           \A i \in DOMAIN fs[p].root.children : fs[p].root.children[i].tagName = <<"s">>

\* C25: resolveRef on the loader reads the target from the file accessor on
\* every call: exists, actualVersion and versionMismatch are those of the
\* file as it is at the call, whatever tree the cache holds for the path.
C25_ResolveRefIgnoresCache ==
    \A i \in Calls("resolveRef") :
        LET e == results[i]
            r == e.done.value
        IN  /\ ~e.done.threw
            /\ r.exists = (PathB \in DOMAIN e.fs)
            /\ (PathB \in DOMAIN e.fs /\ e.fs[PathB].kind = "xml") =>
                /\ Has(r, "actualVersion")
                /\ r.actualVersion = e.fs[PathB].root.attrs["version"]
                /\ r.versionMismatch = (e.fs[PathB].root.attrs["version"] # <<"1">>)
            /\ e.after = e.before

\* two calls with the same tree cached for /p/B: the file has version 2 at
\* the first and is gone at the second, and the results say so
C25_Witness ==
    \E i, j \in Calls("resolveRef") :
        /\ i < j
        /\ PathB \in DOMAIN results[i].before
        /\ results[j].before = results[i].before
        /\ results[i].before[PathB].attrs["version"] = <<"1">>
        /\ results[i].done.value.exists
        /\ results[i].done.value.versionMismatch
        /\ ~results[j].done.value.exists

\* the tree a call left in the cache for its path
StoredBy(i) == results[i].after[results[i].path]

\* C26: an entry of the cache is dropped only by clearCache() and by
\* invalidate of its path; a load of p after a successful load or a save of
\* p, with no clearCache and no invalidate(p) in between, reads no file and
\* returns the tree stored by the latest of them; a load of p after
\* clearCache() or invalidate(p), with no load or save of p in between,
\* reads the file again.
C26_CacheDroppedOnlyOnRequest ==
    /\ \A i \in DOMAIN results :
        LET e == results[i]
        IN  /\ e.before = IF i = 1 THEN <<>> ELSE results[i - 1].after
            /\ e.op = "clearCache" => e.after = <<>>
            /\ e.op = "invalidate" =>
                   e.after = [p \in DOMAIN e.before \ {e.path} |-> e.before[p]]
            /\ e.op \in {"load", "save", "resolveRef"} =>
                   /\ DOMAIN e.before \subseteq DOMAIN e.after
                   /\ \A p \in DOMAIN e.before :
                        (e.op = "save" /\ p = e.path) \/ e.after[p] = e.before[p]
    /\ cache = IF results = <<>> THEN <<>> ELSE results[Len(results)].after
    /\ \A j \in LoadsOf(PathB) :
        /\ \A i \in {k \in LoadsOf(PathB) : ~results[k].done.threw} \cup SavesOf(PathB) :
            (/\ i < j
             /\ \A k \in (i + 1)..(j - 1) : k \notin DropsOf(PathB) \cup SavesOf(PathB))
            => /\ ~results[j].read
               /\ results[j].done = Return(StoredBy(i))
        /\ \A i \in DropsOf(PathB) :
            (/\ i < j
             /\ \A k \in (i + 1)..(j - 1) : k \notin LoadsOf(PathB) \cup SavesOf(PathB))
            => results[j].read

\* a load, the file changed, a second load that reads nothing and returns
\* the first tree, then clearCache
C26_Witness ==
    /\ Len(results) = 3
    /\ results[1].op = "load" /\ results[1].read /\ ~results[1].done.threw
    /\ results[2].op = "load" /\ ~results[2].read
    /\ results[2].done = results[1].done
    /\ results[2].fs # results[1].fs
    /\ results[3].op = "clearCache"
    /\ cache = <<>>

\* a load after invalidate reads the file again
C26_ReloadWitness ==
    /\ Len(results) = 3
    /\ results[1].op = "load" /\ ~results[1].done.threw
    /\ results[2].op = "invalidate" /\ results[2].path = PathB
    /\ results[3].op = "load" /\ results[3].read

\* C29: a load that fails, for a missing file, a parse failure or a schema
\* validation failure, leaves the cache as it was, with no entry for the
\* path; the next load of the path reads the file again and succeeds when
\* the file can be loaded by then.
C29_FailedLoadNotCached ==
    \A i \in LoadsOf(PathB) :
        LET e == results[i]
        IN  /\ (e.read /\ ~Loadable(e.fs, PathB)) =>
                /\ e.done.threw
                /\ e.after = e.before
                /\ PathB \notin DOMAIN e.after
            /\ e.done.threw =>
                \A j \in LoadsOf(PathB) :
                    (/\ i < j
                     /\ \A k \in (i + 1)..(j - 1) : k \notin LoadsOf(PathB) \cup SavesOf(PathB))
                    => /\ results[j].read
                       /\ results[j].done.threw = ~Loadable(results[j].fs, PathB)
                       /\ ~results[j].done.threw =>
                              /\ results[j].done.value = results[j].fs[PathB].root
                              /\ results[j].after[PathB] = results[j].done.value

\* a load the schema rejects, then the file made valid, then a load that
\* succeeds
C29_Witness ==
    \E i, j \in LoadsOf(PathB) :
        /\ j = i + 1
        /\ results[i].done.threw
        /\ results[i].done.name = "ValidationError"
        /\ ~results[j].done.threw
        /\ results[j].read

====
